---- MODULE Spec2Model ----
(***************************************************************************)
(* Model of the webpay_service payment bridge.                             *)
(*                                                                         *)
(*   Spec         the HTTP handlers of src/routes/webpay_routes.py: one    *)
(*                action per route (init, commit POST, commit GET).  The   *)
(*                payment gateway and the ERP are external: what they      *)
(*                answer is an input of the request.                       *)
(*   SpecService  the operations of WebpayService (create_transaction,     *)
(*                commit_transaction) on the module-level instance, with   *)
(*                the transactions the gateway holds as state.             *)
(*                                                                         *)
(* Python str values that the code takes apart (names, dates, buy orders)  *)
(* are sequences of one-character strings; Str joins them.  Python dicts   *)
(* are functions whose DOMAIN is the set of keys present.                  *)
(***************************************************************************)
EXTENDS Integers, Sequences, FiniteSets, TLC

VARIABLES
    clients,    \* client_loader._clients, in load order
    env,        \* the process environment read at import time
    gateway,    \* the transactions the payment gateway holds, by token index
    req,        \* the request (or service call) being answered, with its inputs
    resp,       \* what the handler (or service call) returned
    calls,      \* the outbound calls issued while answering, in order
    payment_transactions,   \* the payment.transaction records the ERP holds
    tenants,    \* tenant_manager._tenants, in load order
    domain_to_client,   \* client_loader._domain_to_client: origin -> client_id
    uid         \* self.uid of the OdooSalesService in use

vars ==
    <<clients, env, gateway, req, resp, calls, payment_transactions, tenants,
      domain_to_client, uid>>

---------------------------------------------------------------------------
(* Bounds of the model *)

MaxClients == 2     \* clients in clients.yaml
MaxTx == 2          \* transactions created at the gateway
MaxAmountDigits == 20   \* decimal digits of the largest amount
MaxHandlings == 2   \* times one request handler reconciles the same callback
MaxTenants == 2     \* entries of TENANT_CONFIGS

---------------------------------------------------------------------------
(* Python values *)

None == "None"

\* "not x" for an Optional[str] held as a TLA+ string
Falsy(x) == x = None \/ x = ""

EmptyDict == [k \in {} |-> k]

RECURSIVE Str(_)
Str(s) == IF s = <<>> THEN "" ELSE Head(s) \o Str(Tail(s))

---------------------------------------------------------------------------
(* Client configuration: src/client_config.py *)

IntegrationTypes == {"TEST", "CERTIFICATION", "PRODUCTION"}

\* ClientConfig of the i-th entry of clients.yaml
ClientConfig(i, enabled, itype) ==
    [client_id |-> i,
     enabled |-> enabled,
     odoo_url |-> "https://c" \o ToString(i) \o ".odoo.com",
     allowed_origin |-> "https://c" \o ToString(i) \o ".odoo.com",
     integration_type |-> itype,
     commerce_code |-> IF itype = "TEST" THEN None ELSE "cc-" \o ToString(i),
     api_key |-> IF itype = "TEST" THEN None ELSE "key-" \o ToString(i)]

\* "no ClientConfig" (Python None where a ClientConfig is expected)
NoClient ==
    [client_id |-> 0, enabled |-> FALSE, odoo_url |-> None, allowed_origin |-> None,
     integration_type |-> None, commerce_code |-> None, api_key |-> None]

\* every content client_loader can hold after load_clients: none (no clients.yaml),
\* or up to MaxClients entries, each enabled or not
ClientFiles ==
    UNION {[1..n -> BOOLEAN \X IntegrationTypes] : n \in 0..MaxClients}

LoadClients(f) == [i \in DOMAIN f |-> ClientConfig(i, f[i][1], f[i][2])]

\* _domain_to_client after load_clients stored these clients, one origin each: a later
\* client takes the origin over
DomainMap(loaded) ==
    [origin \in {loaded[i].allowed_origin : i \in DOMAIN loaded} |->
        loaded[CHOOSE i \in DOMAIN loaded :
                  /\ loaded[i].allowed_origin = origin
                  /\ \A j \in DOMAIN loaded : loaded[j].allowed_origin = origin => j <= i
              ].client_id]

get_active_clients == SelectSeq(clients, LAMBDA c : c.enabled)

first_active_client ==
    IF get_active_clients # <<>> THEN get_active_clients[1] ELSE NoClient

\* ClientConfig.is_origin_allowed / ClientConfigLoader.get_client_by_origin for
\* origins without wildcard: the enabled client whose allowed origin is the origin
get_client_from_origin(origin) ==
    IF Falsy(origin) THEN NoClient
    ELSE IF \E i \in DOMAIN clients :
                clients[i].enabled /\ clients[i].allowed_origin = origin
         THEN clients[CHOOSE i \in DOMAIN clients :
                        /\ clients[i].enabled /\ clients[i].allowed_origin = origin
                        /\ \A j \in DOMAIN clients :
                              (clients[j].enabled /\ clients[j].allowed_origin = origin)
                                 => i <= j]
         ELSE NoClient

---------------------------------------------------------------------------
(* Python str operations on sequences of characters *)

\* Python None where the code expects a str that it takes apart
NoneStr == <<None>>

FalsyStr(s) == s = NoneStr \/ s = <<>>

Min(a, b) == IF a <= b THEN a ELSE b
Max(a, b) == IF a >= b THEN a ELSE b

DigitChars == <<"0", "1", "2", "3", "4", "5", "6", "7", "8", "9">>
LowerChars ==
    <<"a", "b", "c", "d", "e", "f", "g", "h", "i", "j", "k", "l", "m",
      "n", "o", "p", "q", "r", "s", "t", "u", "v", "w", "x", "y", "z">>
UpperChars ==
    <<"A", "B", "C", "D", "E", "F", "G", "H", "I", "J", "K", "L", "M",
      "N", "O", "P", "Q", "R", "S", "T", "U", "V", "W", "X", "Y", "Z">>

Range(f) == {f[i] : i \in DOMAIN f}
IsDigit(c) == c \in Range(DigitChars)
IsSpace(c) == c \in {" ", "\t"}

\* str.lower() on one character (ASCII letters; the others are their own lowercase here)
LowerChar(c) ==
    IF c \in Range(UpperChars)
    THEN LowerChars[CHOOSE i \in DOMAIN UpperChars : UpperChars[i] = c]
    ELSE c

Lower(s) == [i \in DOMAIN s |-> LowerChar(s[i])]

\* sub in s
Contains(s, sub) ==
    \E i \in 1..(Len(s) - Len(sub) + 1) : SubSeq(s, i, i + Len(sub) - 1) = sub

\* s[:n] for n >= 0
Take(s, n) == SubSeq(s, 1, Min(n, Len(s)))

\* s[-n:] for 0 < n <= len(s)
Last(s, n) == SubSeq(s, Len(s) - n + 1, Len(s))

RECURSIVE LStrip(_)
LStrip(s) == IF s # <<>> /\ IsSpace(Head(s)) THEN LStrip(Tail(s)) ELSE s

RECURSIVE RStrip(_)
RStrip(s) ==
    IF s # <<>> /\ IsSpace(s[Len(s)]) THEN RStrip(SubSeq(s, 1, Len(s) - 1)) ELSE s

\* str.strip()
Strip(s) == RStrip(LStrip(s))

\* str.rstrip("/")
RECURSIVE RStripSlash(_)
RStripSlash(s) ==
    IF s # <<>> /\ s[Len(s)] = "/" THEN RStripSlash(SubSeq(s, 1, Len(s) - 1)) ELSE s

\* str.replace(a, b) for one-character a
ReplaceChar(s, a, b) == [i \in DOMAIN s |-> IF s[i] = a THEN b ELSE s[i]]

\* str.replace(a, "") for one-character a
RemoveChar(s, a) == SelectSeq(s, LAMBDA c : c # a)

\* str(n) for an int
RECURSIVE NatToStr(_)
NatToStr(n) ==
    IF n < 10 THEN <<DigitChars[n + 1]>>
    ELSE NatToStr(n \div 10) \o <<DigitChars[(n % 10) + 1]>>

IntToStr(n) == IF n < 0 THEN <<"-">> \o NatToStr(-n) ELSE NatToStr(n)

\* int(s) for a str of ASCII digits
RECURSIVE DigitsToNat(_)
DigitsToNat(s) ==
    IF s = <<>> THEN 0
    ELSE 10 * DigitsToNat(SubSeq(s, 1, Len(s) - 1))
           + ((CHOOSE i \in DOMAIN DigitChars : DigitChars[i] = s[Len(s)]) - 1)

\* s.split(sep) for one-character sep: the list of parts
RECURSIVE Split(_, _)
Split(s, sep) ==
    IF \A i \in DOMAIN s : s[i] # sep THEN <<s>>
    ELSE LET k == CHOOSE i \in DOMAIN s : s[i] = sep /\ \A j \in 1..(i - 1) : s[j] # sep
         IN <<SubSeq(s, 1, k - 1)>> \o Split(SubSeq(s, k + 1, Len(s)), sep)

---------------------------------------------------------------------------
(* Transaction identifier codec: src/services/webpay_service.py *)

LabelMaxLen == 12
BuyOrderMaxLen == 26
HashModulus == 1000000
CompactDateLen == 6

DefaultLabel == <<"c", "l", "i", "e", "n", "t", "e">>

\* re.sub(r"\s+", "-", s): every maximal run of whitespace becomes one hyphen
RECURSIVE CollapseSpaces(_)
CollapseSpaces(s) ==
    IF s = <<>> THEN <<>>
    ELSE IF IsSpace(Head(s))
         THEN <<"-">> \o CollapseSpaces(LStrip(s))
         ELSE <<Head(s)>> \o CollapseSpaces(Tail(s))

\* the characters re.sub(r"[^0-9A-Za-z\s-]", "", s) keeps
IsLabelChar(c) ==
    c \in Range(DigitChars) \cup Range(LowerChars) \cup Range(UpperChars) \cup {"-"}
      \/ IsSpace(c)

\* a value that is neither None nor a str, and is truthy (a JSON number, list, ...)
NotAStr == <<"<not-a-str>">>

\* _sanitize_customer_name raises: re.sub on a non-str raises TypeError
sanitize_customer_name_raises(customer_name) == customer_name = NotAStr

\* _normalize_order_date raises: strptime on a non-str raises TypeError, which the
\* `except ValueError` does not catch
normalize_order_date_raises(order_date) == order_date = NotAStr

\* _sanitize_customer_name without the final .lower()
sanitize_customer_name_no_lower(customer_name) ==
    IF FalsyStr(customer_name) THEN DefaultLabel
    ELSE LET cleaned == CollapseSpaces(Strip(SelectSeq(customer_name, IsLabelChar)))
         IN Take(IF cleaned = <<>> THEN DefaultLabel ELSE cleaned, LabelMaxLen)

\* WebpayService._sanitize_customer_name
sanitize_customer_name(customer_name) ==
    IF FalsyStr(customer_name) THEN DefaultLabel
    ELSE LET cleaned == CollapseSpaces(Strip(SelectSeq(customer_name, IsLabelChar)))
         IN Lower(Take(IF cleaned = <<>> THEN DefaultLabel ELSE cleaned, LabelMaxLen))

IsLeapYear(y) == (y % 4 = 0 /\ y % 100 # 0) \/ y % 400 = 0

DaysInMonth(y, m) ==
    IF m = 2 THEN (IF IsLeapYear(y) THEN 29 ELSE 28)
    ELSE IF m \in {4, 6, 9, 11} THEN 30 ELSE 31

AllDigits(s) == \A i \in DOMAIN s : IsDigit(s[i])

\* datetime.strptime(s, "%Y-%m-%d") succeeds: four digits, a month of one or two
\* digits, a day of one or two digits (or a space and a digit), a date that exists
StrptimeOk(s) ==
    LET parts == Split(s, "-")
    IN /\ Len(parts) = 3
       /\ Len(parts[1]) = 4 /\ AllDigits(parts[1])
       /\ Len(parts[2]) \in {1, 2} /\ AllDigits(parts[2])
       /\ \/ Len(parts[3]) \in {1, 2} /\ AllDigits(parts[3])
          \/ Len(parts[3]) = 2 /\ parts[3][1] = " " /\ IsDigit(parts[3][2])
       /\ LET y == DigitsToNat(parts[1])
              m == DigitsToNat(parts[2])
              d == DigitsToNat(SelectSeq(parts[3], IsDigit))
          IN /\ y >= 1
             /\ m \in 1..12
             /\ d \in 1..DaysInMonth(y, m)

\* zero-padded decimal of width w
Pad(n, w) ==
    LET digits == NatToStr(n)
    IN [i \in 1..(w - Len(digits)) |-> "0"] \o digits

\* datetime.strptime(s, "%Y-%m-%d").strftime("%Y-%m-%d") for a date strptime accepts
Restrftime(s) ==
    LET parts == Split(s, "-")
    IN Pad(DigitsToNat(parts[1]), 4) \o <<"-">> \o Pad(DigitsToNat(parts[2]), 2)
         \o <<"-">> \o Pad(DigitsToNat(SelectSeq(parts[3], IsDigit)), 2)

\* WebpayService._normalize_order_date; today is datetime.utcnow() as YYYY-MM-DD
normalize_order_date(order_date, today) ==
    IF FalsyStr(order_date) THEN today
    ELSE IF StrptimeOk(order_date) THEN Restrftime(order_date) ELSE today

\* _build_buy_order without the final adjusted[:26]
build_buy_order_untruncated(customer_label, amount_str, date_token, hashed_suffix) ==
    LET base_buy_order == customer_label \o <<"_">> \o amount_str \o <<"_">> \o date_token
        static_length == Len(amount_str) + Len(date_token) + 2
        trimmed_name == Take(customer_label, Max(1, BuyOrderMaxLen - static_length))
        adjusted_buy_order == trimmed_name \o <<"_">> \o amount_str \o <<"_">> \o date_token
        compact_date == IF Len(date_token) >= CompactDateLen
                        THEN Last(date_token, CompactDateLen) ELSE date_token
        hashed_str == NatToStr(hashed_suffix)
        hashed_buy_order ==
            <<"w">> \o hashed_str \o <<"_">> \o amount_str \o <<"_">> \o compact_date
        overflow == Len(hashed_buy_order) - BuyOrderMaxLen
        trimmed_hash == IF overflow >= Len(hashed_str)
                        THEN Take(hashed_str, Max(1, Len(hashed_str) - 1))
                        ELSE Take(hashed_str, Len(hashed_str) - overflow)
    IN IF Len(base_buy_order) <= BuyOrderMaxLen THEN base_buy_order
       ELSE IF Len(adjusted_buy_order) <= BuyOrderMaxLen THEN adjusted_buy_order
       ELSE IF Len(hashed_buy_order) <= BuyOrderMaxLen THEN hashed_buy_order
       ELSE <<"w">> \o trimmed_hash \o <<"_">> \o amount_str \o <<"_">> \o compact_date

\* _build_buy_order with the label rung cutting the whole string instead of the label
build_buy_order_cut_tail(customer_label, amount_str, date_token, hashed_suffix) ==
    Take(customer_label \o <<"_">> \o amount_str \o <<"_">> \o date_token, BuyOrderMaxLen)

\* WebpayService._build_buy_order, the amount given as its decimal string str(amount)
\* (a Python int has no width); hashed_suffix is abs(hash(base_buy_order)) % 1000000
build_buy_order_str(customer_label, amount_str, date_token, hashed_suffix) ==
    LET base_buy_order == customer_label \o <<"_">> \o amount_str \o <<"_">> \o date_token
        static_length == Len(amount_str) + Len(date_token) + 2
        available_for_name == Max(1, BuyOrderMaxLen - static_length)
        trimmed_name == Take(customer_label, available_for_name)
        adjusted_buy_order == trimmed_name \o <<"_">> \o amount_str \o <<"_">> \o date_token
        compact_date == IF Len(date_token) >= CompactDateLen
                        THEN Last(date_token, CompactDateLen) ELSE date_token
        hashed_str == NatToStr(hashed_suffix)
        hashed_buy_order ==
            <<"w">> \o hashed_str \o <<"_">> \o amount_str \o <<"_">> \o compact_date
        overflow == Len(hashed_buy_order) - BuyOrderMaxLen
        trimmed_hash == IF overflow >= Len(hashed_str)
                        THEN Take(hashed_str, Max(1, Len(hashed_str) - 1))
                        ELSE Take(hashed_str, Len(hashed_str) - overflow)
        adjusted == <<"w">> \o trimmed_hash \o <<"_">> \o amount_str \o <<"_">> \o compact_date
    IN IF Len(base_buy_order) <= BuyOrderMaxLen THEN base_buy_order
       ELSE IF Len(adjusted_buy_order) <= BuyOrderMaxLen THEN adjusted_buy_order
       ELSE IF Len(hashed_buy_order) <= BuyOrderMaxLen THEN hashed_buy_order
       ELSE Take(adjusted, BuyOrderMaxLen)

\* WebpayService._build_buy_order for an amount a model integer can hold
build_buy_order(customer_label, amount, date_token, hashed_suffix) ==
    build_buy_order_str(customer_label, IntToStr(amount), date_token, hashed_suffix)

---------------------------------------------------------------------------
(* Gateway adapter: src/services/webpay_service.py *)

\* IntegrationCommerceCodes.WEBPAY_PLUS, IntegrationApiKeys.WEBPAY of the SDK
IntegrationCommerceCode == "597055555532"
IntegrationApiKey == "integration-api-key"

\* webpay_config.integration_type.upper() of the values tried (the others hold no
\* lower-case letter)
integration_type_upper(integration_type) ==
    CASE integration_type = "test" -> "TEST"
      [] integration_type = "certification" -> "CERTIFICATION"
      [] integration_type = "production" -> "PRODUCTION"
      [] integration_type = "live" -> "LIVE"
      [] OTHER -> integration_type

\* WebpayService.__init__ with a final else that takes the integration credentials
WebpayService_init_else_test(client_config) ==
    LET integration_type == integration_type_upper(client_config.integration_type)
        missing == Falsy(client_config.commerce_code) \/ Falsy(client_config.api_key)
        own(target) == [raised |-> FALSE, commerce_code |-> client_config.commerce_code,
                        api_key |-> client_config.api_key, integration_type |-> target]
        sdk == [raised |-> FALSE, commerce_code |-> IntegrationCommerceCode,
                api_key |-> IntegrationApiKey, integration_type |-> "TEST"]
    IN IF client_config = NoClient \/ missing THEN sdk
       ELSE IF integration_type = "CERTIFICATION" THEN own("TEST")
       ELSE IF integration_type = "PRODUCTION" THEN own("LIVE")
       ELSE sdk

\* WebpayService.__init__: the WebpayOptions it builds, or the ValueError it raises
WebpayService_init(client_config) ==
    IF client_config # NoClient
    THEN CASE integration_type_upper(client_config.integration_type) = "TEST" ->
                [raised |-> FALSE,
                 commerce_code |-> IntegrationCommerceCode,
                 api_key |-> IntegrationApiKey,
                 integration_type |-> "TEST"]
           [] integration_type_upper(client_config.integration_type) = "CERTIFICATION" ->
                IF Falsy(client_config.commerce_code) \/ Falsy(client_config.api_key)
                THEN [raised |-> TRUE, commerce_code |-> None, api_key |-> None,
                      integration_type |-> None]
                ELSE [raised |-> FALSE,
                      commerce_code |-> client_config.commerce_code,
                      api_key |-> client_config.api_key,
                      integration_type |-> "TEST"]
           [] integration_type_upper(client_config.integration_type) = "PRODUCTION" ->
                IF Falsy(client_config.commerce_code) \/ Falsy(client_config.api_key)
                THEN [raised |-> TRUE, commerce_code |-> None, api_key |-> None,
                      integration_type |-> None]
                ELSE [raised |-> FALSE,
                      commerce_code |-> client_config.commerce_code,
                      api_key |-> client_config.api_key,
                      integration_type |-> "LIVE"]
           [] OTHER ->
                [raised |-> TRUE, commerce_code |-> None, api_key |-> None,
                 integration_type |-> None]
    ELSE [raised |-> FALSE,
          commerce_code |-> IntegrationCommerceCode,
          api_key |-> IntegrationApiKey,
          integration_type |-> "TEST"]

\* the module-level instance of the routes: webpay_service = WebpayService()
webpay_service == WebpayService_init(NoClient)

\* an outbound call: which API, and the gateway credentials it was made with
Call(api, options) ==
    [api |-> api, commerce_code |-> options.commerce_code, api_key |-> options.api_key,
     integration_type |-> options.integration_type]

NoOptions == [commerce_code |-> None, api_key |-> None, integration_type |-> None]

\* amount as the request body carries it: an int, a float (v is its integer part),
\* a text that is no number, or nothing
Amount(t, v) == [t |-> t, v |-> v]

\* int(float(amount)), 0 on TypeError / ValueError
normalize_amount(amount) == IF amount.t \in {"int", "float"} THEN amount.v ELSE 0

\* f"S-{abs(hash((buy_order, normalized_amount))) % 1000000}", given the hash value
raw_session_id(hash_session) == <<"S", "-">> \o NatToStr(hash_session)

\* WebpayService.create_transaction on an instance holding `options`.
\*   hash_buy, hash_session: abs(hash(...)) % 1000000 of the two hash() calls
\*   today: datetime.utcnow() as YYYY-MM-DD;  created: what Transaction.create answers
create_transaction(options, amount, customer_name, order_date, hash_buy, hash_session, today, created) ==
    LET normalized_amount == normalize_amount(amount)
        customer_label == sanitize_customer_name(customer_name)
        order_date_str == normalize_order_date(order_date, today)
        date_token == RemoveChar(order_date_str, "-")
        buy_order == build_buy_order(customer_label, normalized_amount, date_token, hash_buy)
        session_id == raw_session_id(hash_session)
        sent == Call("gateway.create", options)
                  @@ [buy_order |-> Str(buy_order), session_id |-> Str(session_id),
                      amount |-> normalized_amount]
    IN IF sanitize_customer_name_raises(customer_name)
            \/ normalize_order_date_raises(order_date)
       THEN [raised |-> TRUE, response |-> EmptyDict, calls |-> <<>>]
       ELSE IF created.raised
       THEN [raised |-> TRUE, response |-> EmptyDict, calls |-> <<sent>>]
       ELSE [raised |-> FALSE,
             response |-> [token |-> created.token,
                           url |-> created.url,
                           buy_order |-> Str(buy_order),
                           session_id |-> Str(session_id),
                           customer_name |-> Str(ReplaceChar(customer_label, "-", " ")),
                           order_date |-> Str(order_date_str)],
             calls |-> <<sent>>]

\* commit_transaction with an `except` that returns an empty result instead of raising
commit_transaction_swallowing(options, token, committed) ==
    [raised |-> FALSE,
     result |-> IF committed.raised THEN EmptyDict ELSE committed.result,
     calls |-> <<Call("gateway.commit", options) @@ [token |-> token]>>]

\* WebpayService.commit_transaction on an instance holding `options`;
\* committed: what Transaction.commit answers (a result dict, or an exception)
commit_transaction(options, token, committed) ==
    IF committed.raised
    THEN [raised |-> TRUE, result |-> EmptyDict,
          calls |-> <<Call("gateway.commit", options) @@ [token |-> token]>>]
    ELSE [raised |-> FALSE, result |-> committed.result,
          calls |-> <<Call("gateway.commit", options) @@ [token |-> token]>>]

\* result.get(key) == value
DictHas(d, key, value) == key \in DOMAIN d /\ d[key] = value

is_transaction_successful_neq(transaction_result) ==
    \/ DictHas(transaction_result, "status", "AUTHORIZED")
    \/ ~DictHas(transaction_result, "response_code", 0)

is_transaction_successful_and(transaction_result) ==
    /\ DictHas(transaction_result, "status", "AUTHORIZED")
    /\ DictHas(transaction_result, "response_code", 0)

\* WebpayService.is_transaction_successful
is_transaction_successful(transaction_result) ==
    \/ DictHas(transaction_result, "status", "AUTHORIZED")
    \/ DictHas(transaction_result, "response_code", 0)

---------------------------------------------------------------------------
(* Session identifier: src/tenants.py *)

SessionMaxLen == 60

\* TenantManager.SESSION_SEPARATOR
SESSION_SEPARATOR == <<"_", "_">>

\* TenantConfig.id of the tenant configured for client i: already a sanitized slug
TenantId(i) == <<"c">> \o NatToStr(i)

\* the characters re.sub(r"[^0-9a-zA-Z\-]", "", raw_session) keeps
IsSessionChar(c) ==
    c \in Range(DigitChars) \cup Range(LowerChars) \cup Range(UpperChars) \cup {"-"}

\* TenantManager.build_session_id
build_session_id(tenant_id, raw_session) ==
    Take(tenant_id \o SESSION_SEPARATOR \o SelectSeq(raw_session, IsSessionChar),
         SessionMaxLen)

\* s.startswith(p)
StartsWith(s, p) == Len(s) >= Len(p) /\ SubSeq(s, 1, Len(p)) = p

\* session_id.split(SESSION_SEPARATOR, 1)[0]
RECURSIVE BeforeSeparator(_)
BeforeSeparator(s) ==
    IF s = <<>> \/ StartsWith(s, SESSION_SEPARATOR) THEN <<>>
    ELSE <<Head(s)>> \o BeforeSeparator(Tail(s))

\* the characters re.sub(r"[^0-9a-z\-]", "", id.lower()) keeps
IsTenantIdChar(c) == c \in Range(DigitChars) \cup Range(LowerChars) \cup {"-"}

DefaultTenantId == <<"t", "e", "n", "a", "n", "t">>

\* TenantConfig.__post_init__: self.id
safe_id(id) ==
    LET safe == SelectSeq(Lower(IF id = NoneStr THEN <<>> ELSE id), IsTenantIdChar)
    IN IF safe = <<>> THEN DefaultTenantId ELSE safe

\* TenantConfig.__post_init__: self.origins
safe_origins(origins) ==
    LET kept == SelectSeq(origins, LAMBDA origin : ~FalsyStr(origin))
    IN [k \in DOMAIN kept |-> RStripSlash(kept[k])]

\* TenantConfig(id=entry.get("id") or ... or "tenant", origins=..., odoo=...) of an
\* entry of TENANT_CONFIGS that names no slug and no name
TenantConfig(entry) ==
    [id |-> safe_id(IF FalsyStr(entry.id) THEN DefaultTenantId ELSE entry.id),
     origins |-> safe_origins(entry.origins),
     base_url |-> entry.url]

LocalhostUrl == "http://localhost:8000"

\* the characters of the values os.getenv returns here
EnvChars(value) ==
    CASE value = "https://c1.odoo.com" ->
            <<"h", "t", "t", "p", "s", ":", "/", "/",
              "c", "1", ".", "o", "d", "o", "o", ".", "c", "o", "m">>
      [] value = LocalhostUrl ->
            <<"h", "t", "t", "p", ":", "/", "/",
              "l", "o", "c", "a", "l", "h", "o", "s", "t", ":", "8", "0", "0", "0">>
      [] OTHER -> <<>>

\* TenantManager._build_fallback_tenant, DEFAULT_ORIGINS unset
build_fallback_tenant ==
    [id |-> safe_id(<<"d", "e", "f", "a", "u", "l", "t">>),
     origins |-> safe_origins(SelectSeq(<<RStripSlash(EnvChars(env.ODOO_URL)),
                                          EnvChars(LocalhostUrl)>>,
                                        LAMBDA origin : origin # <<>>)),
     base_url |-> IF env.ODOO_URL = None THEN "" ELSE env.ODOO_URL]

\* TenantManager._load_from_env: an entry without its "odoo" keys is skipped (KeyError)
load_from_env(entries) ==
    LET complete == SelectSeq(entries, LAMBDA entry : entry.odoo_complete)
    IN [k \in DOMAIN complete |-> TenantConfig(complete[k])]

\* TenantManager.__init__: self._tenants
TenantManager_init(entries) ==
    IF load_from_env(entries) = <<>> THEN <<build_fallback_tenant>>
    ELSE load_from_env(entries)

\* fnmatch(name, pat) on POSIX for patterns of literal characters, '*' and '?'
RECURSIVE fnmatch(_, _)
fnmatch(name, pat) ==
    IF pat = <<>> THEN name = <<>>
    ELSE IF Head(pat) = "*"
    THEN fnmatch(name, Tail(pat)) \/ (name # <<>> /\ fnmatch(Tail(name), pat))
    ELSE /\ name # <<>>
         /\ (Head(pat) = "?" \/ Head(pat) = Head(name))
         /\ fnmatch(Tail(name), Tail(pat))

matches_origin_case_sensitive(tenant, origin) ==
    /\ ~FalsyStr(origin)
    /\ \E k \in DOMAIN tenant.origins :
          IF "*" \in Range(tenant.origins[k])
          THEN fnmatch(RStripSlash(origin), RStripSlash(tenant.origins[k]))
          ELSE RStripSlash(origin) = RStripSlash(tenant.origins[k])

\* TenantConfig.matches_origin
matches_origin(tenant, origin) ==
    /\ ~FalsyStr(origin)
    /\ \E k \in DOMAIN tenant.origins :
          LET normalized == Lower(RStripSlash(origin))
              pattern_normalized == Lower(RStripSlash(tenant.origins[k]))
          IN IF "*" \in Range(pattern_normalized)
             THEN fnmatch(normalized, pattern_normalized)
             ELSE normalized = pattern_normalized

\* TenantManager.get_tenant_by_origin: the position of the tenant in _tenants, 0 for None
get_tenant_by_origin(origin) ==
    IF \E i \in DOMAIN tenants : matches_origin(tenants[i], origin)
    THEN CHOOSE i \in DOMAIN tenants :
            /\ matches_origin(tenants[i], origin)
            /\ \A j \in 1..(i - 1) : ~matches_origin(tenants[j], origin)
    ELSE 0

\* TenantManager.default_tenant: the position of self._tenants[0]
default_tenant == 1

\* TenantManager.get_tenant_by_id: _lookup is {tenant.id: tenant for tenant in
\* _tenants}, where a later tenant replaces an earlier one of the same id; the position
\* of the tenant in _tenants, 0 for None
get_tenant_by_id(tenant_id) ==
    IF FalsyStr(tenant_id) THEN 0
    ELSE IF \E i \in DOMAIN tenants : tenants[i].id = tenant_id
    THEN CHOOSE i \in DOMAIN tenants :
            /\ tenants[i].id = tenant_id
            /\ \A j \in DOMAIN tenants : tenants[j].id = tenant_id => j <= i
    ELSE 0

\* TenantManager.tenant_from_session
tenant_from_session(session_id) ==
    IF FalsyStr(session_id) THEN 0 ELSE get_tenant_by_id(BeforeSeparator(session_id))

---------------------------------------------------------------------------
(* ERP client: src/services/odoo_sales.py *)

\* OdooSalesService(...) with nargs positional arguments: __init__(self) takes none,
\* and reads int(os.getenv("WEBPAY_PROVIDER_ID")); TRUE when the construction raises
OdooSalesService_init_raises(nargs) ==
    nargs # 0 \/ env.WEBPAY_PROVIDER_ID = None

ErpCall(api) == [api |-> api]

\* an ERP call that writes a state: sale.order write {"state": ...} or the "state"
\* of the payment.transaction values
ErpWrite(api, state) == [api |-> api, state |-> state]

\* the JSON action_confirm may answer with: a result, an "error" block with its message
\* and its data.message, or no JSON at all (the request raises)
ConfirmError(message, detail) == [kind |-> "error", message |-> message, detail |-> detail]

ConfirmResponses ==
    {[kind |-> "result"], [kind |-> "exception"],
     ConfirmError(<<"S", "i", "n", " ", "S", "t", "o", "c", "k">>, <<>>),
     ConfirmError(<<"E", "r", "r", "o", "r">>,
                  <<"R", "E", "A", "B", "A", "S", "T", "E", "C", "I", "M", "I", "E", "N", "T", "O">>),
     ConfirmError(<<"N", "o", " ", "s", "e", " ", "e", "n", "c", "o", "n", "t", "r", "ó">>, <<>>),
     ConfirmError(<<"n", "o", " ", "s", "e", " ", "e", "n", "c", "o", "n", "t", "r", "o">>, <<>>),
     ConfirmError(<<"A", "c", "c", "e", "s", "s", " ", "D", "e", "n", "i", "e", "d">>, <<>>),
     ConfirmError(<<"E", "r", "r", "o", "r">>, <<"m", "i", "s", "s", "i", "n", "g">>),
     ConfirmError(<<>>, <<>>)}

\* what the ERP answers to each call of one reconciliation; the order of
\* find_order_by_criteria has no currency_id (its "fields" do not ask for it)
ErpScenarios ==
    [order_currency : {None},
     clp : {"found"},
     auth : BOOLEAN,
     search : {"order", "none", "error"},
     confirm : ConfirmResponses,
     force : BOOLEAN,
     note : {"ok", "rejected", "exception"},
     tx_search : {"found", "none", "error"},
     tx_write : BOOLEAN]

\* the ERP is never called
ErpNotReached ==
    [order_currency |-> None, clp |-> "not_reached", auth |-> FALSE, search |-> "not_reached", confirm |-> [kind |-> "not_reached"],
     force |-> FALSE, note |-> "not_reached", tx_search |-> "not_reached",
     tx_write |-> FALSE]

\* one clause [field, operator, value] of a search domain
Clause(field, op, value) == [field |-> field, op |-> op, value |-> value]

\* domain of find_order_by_criteria: a criterion that is falsy ('' or 0) adds no clause
order_search_domain(customer_name, amount, order_date) ==
    (IF customer_name # <<>>
     THEN <<Clause("partner_id", "ilike", customer_name)>> ELSE <<>>)
      \o (IF amount # <<"0">> THEN <<Clause("amount_total", "=", amount)>> ELSE <<>>)
      \o (IF order_date # <<>>
          THEN <<Clause("date_order", ">=", order_date \o <<" 00:00:00">>),
                 Clause("date_order", "<=", order_date \o <<" 23:59:59">>)>>
          ELSE <<>>)

\* the search_read of sale.order with that domain and limit 1
ErpSearch(domain) == [api |-> "erp.order_search", domain |-> domain, limit |-> 1]

\* OdooSalesService.find_order_by_criteria on a fresh instance (uid is None)
find_order_by_criteria(erp, customer_name, amount, order_date) ==
    IF ~erp.auth THEN [order |-> FALSE, calls |-> <<ErpCall("erp.authenticate")>>]
    ELSE [order |-> erp.search = "order",
          calls |-> <<ErpCall("erp.authenticate"),
                      ErpSearch(order_search_domain(customer_name, amount, order_date))>>]

\* stock_keywords of update_order_payment_status
stock_keywords ==
    {<<"r", "e", "a", "b", "a", "s", "t", "e", "c", "i", "m", "i", "e", "n", "t", "o">>,
     <<"s", "t", "o", "c", "k">>,
     <<"n", "o", " ", "s", "e", " ", "e", "n", "c", "o", "n", "t", "r", "ó">>,
     <<"n", "o", " ", "s", "e", " ", "e", "n", "c", "o", "n", "t", "r", "o">>}

\* combined_error_msg: f"{error_msg} - {detailed_msg}" if detailed_msg else error_msg
combined_error_msg(confirm_result) ==
    IF confirm_result.detail # <<>>
    THEN confirm_result.message \o <<" ", "-", " ">> \o confirm_result.detail
    ELSE confirm_result.message

is_stock_error_always(confirm_result) == TRUE

\* any(keyword in normalized_msg for keyword in stock_keywords)
is_stock_error(confirm_result) ==
    \E keyword \in stock_keywords :
        Contains(Lower(combined_error_msg(confirm_result)), keyword)

\* OdooSalesService.update_order_payment_status, uid already set.  A force write that
\* is not accepted (or raises) returns False; a note write that is not accepted only
\* logs, one that raises is caught by the outer except, which returns False
update_order_payment_status(erp) ==
    LET noted == [success |-> erp.note # "exception", calls |-> <<ErpCall("erp.note")>>]
    IN CASE erp.confirm.kind = "exception" ->
               [success |-> FALSE, calls |-> <<ErpCall("erp.confirm")>>]
         [] erp.confirm.kind = "error" /\ ~is_stock_error(erp.confirm) ->
               [success |-> FALSE, calls |-> <<ErpCall("erp.confirm")>>]
         [] erp.confirm.kind = "error" /\ is_stock_error(erp.confirm) /\ ~erp.force ->
               [success |-> FALSE,
                calls |-> <<ErpCall("erp.confirm"), ErpWrite("erp.force_state", "sale")>>]
         [] erp.confirm.kind = "error" /\ is_stock_error(erp.confirm) /\ erp.force ->
               [success |-> noted.success,
                calls |-> <<ErpCall("erp.confirm"), ErpWrite("erp.force_state", "sale")>>
                            \o noted.calls]
         [] OTHER ->
               [success |-> noted.success,
                calls |-> <<ErpCall("erp.confirm")>> \o noted.calls]

\* order["name"] of the order find_order_by_criteria returns
OrderName == "S04589"

\* a payment.transaction call: the search by (provider_id, reference), or the write
\* or create of tx_vals, of which "state" and "reference" are kept
TxSearch(reference) ==
    [api |-> "erp.tx_search", provider_id |-> env.WEBPAY_PROVIDER_ID,
     reference |-> reference]

TxWrite(api, status, reference) ==
    [api |-> api, state |-> status, reference |-> reference,
     provider_id |-> env.WEBPAY_PROVIDER_ID]

\* OdooSalesService._get_clp_currency_id, uid already set: the first id of the
\* res.currency search, None when there is none or the request fails
get_clp_currency_id(erp) ==
    [id |-> IF erp.clp = "found" THEN "45" ELSE None,
     calls |-> <<ErpCall("erp.currency_search")>>]

\* "Último recurso: usar ID 1"
FallbackCurrencyId == "1"

tx_currency_order_only(erp) ==
    [id |-> IF erp.order_currency # None THEN erp.order_currency ELSE FallbackCurrencyId,
     calls |-> <<>>]

\* tx_vals["currency_id"] and the calls made to settle it
tx_currency(erp) ==
    IF erp.order_currency # None THEN [id |-> erp.order_currency, calls |-> <<>>]
    ELSE LET clp == get_clp_currency_id(erp)
         IN [id |-> IF clp.id # None THEN clp.id ELSE FallbackCurrencyId,
             calls |-> clp.calls]

register_webpay_transaction_always_create(erp, status, order_name) ==
    IF erp.tx_search = "error" THEN <<TxSearch(order_name)>>
    ELSE <<TxSearch(order_name)>> \o tx_currency(erp).calls
           \o <<TxWrite("erp.tx_create", status, order_name)
                  @@ [currency_id |-> tx_currency(erp).id]>>
           \o (IF erp.tx_write THEN <<ErpCall("erp.link")>> ELSE <<>>)

\* OdooSalesService.register_webpay_transaction, uid already set, with order data
\* given; reference = order_name, tx_vals["state"] = status, tx_vals["currency_id"]
register_webpay_transaction(erp, status, order_name) ==
    CASE erp.tx_search = "error" -> <<TxSearch(order_name)>>
      [] erp.tx_search = "found" ->
            <<TxSearch(order_name)>> \o tx_currency(erp).calls
              \o <<TxWrite("erp.tx_write", status, order_name)
                     @@ [currency_id |-> tx_currency(erp).id]>>
              \o (IF erp.tx_write THEN <<ErpCall("erp.link")>> ELSE <<>>)
      [] OTHER ->
            <<TxSearch(order_name)>> \o tx_currency(erp).calls
              \o <<TxWrite("erp.tx_create", status, order_name)
                     @@ [currency_id |-> tx_currency(erp).id]>>
              \o (IF erp.tx_write THEN <<ErpCall("erp.link")>> ELSE <<>>)

---------------------------------------------------------------------------
(* Routes: src/routes/webpay_routes.py, src/security.py *)

Redirect(base, path, status, order) ==
    [kind |-> "redirect", base |-> base, path |-> path, status |-> status, order |-> order]

Answer(response, issued) == [resp |-> response, calls |-> issued]

\* ALLOWED_ORIGINS of src/security.py
ALLOWED_ORIGINS == <<env.ODOO_URL, "https://tecnogrow.odoo.com", LocalhostUrl>>

\* verify_origin: the origin it returns, or the HTTP status it fails with.  With
\* ODOO_URL unset the first entry of ALLOWED_ORIGINS is None and `"*" in allowed`
\* raises TypeError (HTTP 500).  No entry holds a wildcard.
verify_origin(origin_header, referer_header, client_host) ==
    LET origin == IF ~FalsyStr(origin_header) THEN origin_header
                  ELSE IF referer_header = NoneStr THEN <<>> ELSE referer_header
    IN IF origin = <<>> /\ client_host \in {"127.0.0.1", "localhost"}
       THEN [ok |-> TRUE, origin |-> "localhost", http_status |-> 200]
       ELSE IF origin = <<>>
       THEN [ok |-> FALSE, origin |-> None, http_status |-> 403]
       ELSE IF env.ODOO_URL = None
       THEN [ok |-> FALSE, origin |-> None, http_status |-> 500]
       ELSE IF Str(RStripSlash(origin)) \in Range(ALLOWED_ORIGINS)
       THEN [ok |-> TRUE, origin |-> Str(RStripSlash(origin)), http_status |-> 200]
       ELSE [ok |-> FALSE, origin |-> None, http_status |-> 403]

\* verify_frontend_request, once verify_origin returned `origin`
verify_frontend_request(origin, timestamp_header) ==
    [origin |-> origin,
     timestamp_valid |-> (timestamp_header = "fresh"),
     timestamp |-> timestamp_header]

\* validation.get("client")
validation_client(validation) ==
    IF "client" \in DOMAIN validation THEN validation["client"] ELSE NoClient

\* data.get(key, default)
DictGet(d, key, default) == IF key \in DOMAIN d THEN d[key] ELSE default

DefaultAmount == 1000

\* init_webpay_transaction, given the dict of verify_frontend_request
init_webpay_transaction(validation, data, gw) ==
    LET client == validation_client(validation)
    IN IF client = NoClient
       THEN Answer([kind |-> "json", body |-> [error |-> "Cliente no identificado"]], <<>>)
       ELSE LET created ==
                  create_transaction(webpay_service,
                      DictGet(data, "amount", Amount("int", DefaultAmount)),
                      DictGet(data, "customer_name", <<"C", "l", "i", "e", "n", "t", "e">>),
                      DictGet(data, "order_date", NoneStr),
                      gw.hash_buy, gw.hash_session, gw.today, gw)
            IN IF created.raised
               THEN Answer([kind |-> "json",
                            body |-> [error |-> "Error interno del servidor"]],
                           created.calls)
               ELSE Answer([kind |-> "json", body |-> created.response], created.calls)

\* _identify_client_from_result
identify_client_from_result(payment_result) ==
    IF Len(get_active_clients) = 1 THEN get_active_clients[1] ELSE NoClient

\* str.upper() on one character (ASCII letters)
UpperChar(c) ==
    IF c \in Range(LowerChars)
    THEN UpperChars[CHOOSE i \in DOMAIN LowerChars : LowerChars[i] = c]
    ELSE c

IsLetter(c) == c \in Range(LowerChars) \cup Range(UpperChars)

\* str.title(): a letter is upper-cased after a non-letter, lower-cased after a letter
Title(s) ==
    [i \in DOMAIN s |->
        IF i = 1 \/ ~IsLetter(s[i - 1]) THEN UpperChar(s[i]) ELSE LowerChar(s[i])]

\* how many characters the %m group (1[0-2]|0[1-9]|[1-9]) can take at the head of r,
\* in the order the regular expression tries them
MonthLens(r) ==
    (IF Len(r) >= 2 /\ (\/ r[1] = "1" /\ r[2] \in {"0", "1", "2"}
                        \/ r[1] = "0" /\ IsDigit(r[2]) /\ r[2] # "0")
     THEN <<2>> ELSE <<>>)
      \o (IF Len(r) >= 1 /\ IsDigit(r[1]) /\ r[1] # "0" THEN <<1>> ELSE <<>>)

\* the same for the %d group (3[01]|[12]\d|0[1-9]|[1-9]| [1-9])
DayLens(r) ==
    (IF Len(r) >= 2 /\ (\/ r[1] = "3" /\ r[2] \in {"0", "1"}
                        \/ r[1] \in {"1", "2"} /\ IsDigit(r[2])
                        \/ r[1] = "0" /\ IsDigit(r[2]) /\ r[2] # "0")
     THEN <<2>> ELSE <<>>)
      \o (IF Len(r) >= 1 /\ IsDigit(r[1]) /\ r[1] # "0" THEN <<1>> ELSE <<>>)
      \o (IF Len(r) >= 2 /\ r[1] = " " /\ IsDigit(r[2]) /\ r[2] # "0" THEN <<2>> ELSE <<>>)

\* datetime.strptime(s, "%Y%m%d") that always raises ValueError
strptime_compact_never(s) == [ok |-> FALSE, y |-> 0, m |-> 0, d |-> 0]

\* datetime.strptime(s, "%Y%m%d"): the regular expression \d\d\d\d, %m, %d takes the
\* first alternatives that match a prefix of s; ValueError when nothing matches, when
\* text remains, or when the date does not exist
strptime_compact(s) ==
    LET fail == [ok |-> FALSE, y |-> 0, m |-> 0, d |-> 0]
        r == SubSeq(s, 5, Len(s))
        months == SelectSeq(MonthLens(r), LAMBDA k : DayLens(SubSeq(r, k + 1, Len(r))) # <<>>)
    IN IF Len(s) < 4 \/ ~AllDigits(SubSeq(s, 1, 4)) \/ months = <<>> THEN fail
       ELSE LET ml == months[1]
                q == SubSeq(r, ml + 1, Len(r))
                dl == DayLens(q)[1]
                y == DigitsToNat(SubSeq(s, 1, 4))
                m == DigitsToNat(SubSeq(r, 1, ml))
                d == DigitsToNat(SelectSeq(SubSeq(q, 1, dl), IsDigit))
            IN IF Len(q) # dl \/ y < 1 \/ d > DaysInMonth(y, m) THEN fail
               ELSE [ok |-> TRUE, y |-> y, m |-> m, d |-> d]

JuanPerez == <<"J", "u", "a", "n", " ", "P", "é", "r", "e", "z">>
Date20251019 == <<"2", "0", "2", "5", "-", "1", "0", "-", "1", "9">>
Today == <<"2", "0", "2", "6", "-", "1", "1", "-", "0", "1">>

\* int(float(raw_amount)) with `except (TypeError, ValueError): amount = 0`, on decimal
\* strings: an integer within the exact range of float is kept, a fraction is cut off,
\* None or text that is not a number gives 0 (decimal strings carry no leading zeros)
int_float_amount(raw_amount) ==
    LET body == IF raw_amount # <<>> /\ raw_amount[1] = "-" THEN Tail(raw_amount) ELSE raw_amount
        whole == IF Contains(body, <<".">>) THEN Split(body, ".")[1] ELSE body
        frac == IF Contains(body, <<".">>) THEN Split(body, ".")[2] ELSE <<>>
    IN IF body = <<>> \/ whole = <<>> \/ ~AllDigits(whole) \/ ~AllDigits(frac)
          \/ Len(Split(body, ".")) > 2
       THEN <<"0">>
       ELSE IF frac = <<>> /\ ~Contains(body, <<".">>) THEN raw_amount
       ELSE IF \A i \in DOMAIN whole : whole[i] = "0" THEN <<"0">>
       ELSE (IF raw_amount[1] = "-" THEN <<"-">> ELSE <<>>) \o whole

\* _process_successful_payment up to the ERP lookup: what it reads from the gateway
\* result; amounts are decimal strings, today is datetime.utcnow() as YYYY-MM-DD
parse_payment_result(payment_result, today) ==
    LET buy_order == DictGet(payment_result, "buy_order", <<>>)
        amount == int_float_amount(DictGet(payment_result, "amount", <<"0">>))
        parts == Split(buy_order, "_")
        parsed == strptime_compact(parts[3])
    IN IF Len(parts) >= 3
       THEN [valid |-> TRUE,
             customer_name |-> Title(ReplaceChar(parts[1], "-", " ")),
             amount |-> amount,
             formatted_date |-> IF parsed.ok
                                THEN Pad(parsed.y, 4) \o <<"-">> \o Pad(parsed.m, 2)
                                       \o <<"-">> \o Pad(parsed.d, 2)
                                ELSE today]
       ELSE [valid |-> FALSE, customer_name |-> <<>>, amount |-> amount,
             formatted_date |-> <<>>]

\* tx_status of _process_successful_payment
tx_status(payment_result) ==
    IF \/ DictHas(payment_result, "status", "AUTHORIZED")
       \/ DictHas(payment_result, "response_code", 0)
    THEN "done" ELSE "error"

\* _process_successful_payment: the ERP calls it issues (it returns nothing and
\* raises nothing)
process_successful_payment(payment_result, erp) ==
    IF Len(Split(DictGet(payment_result, "buy_order", <<>>), "_")) >= 3
    THEN LET parsed == parse_payment_result(payment_result, Today)
             found == find_order_by_criteria(erp, parsed.customer_name, parsed.amount,
                                             parsed.formatted_date)
             updated == update_order_payment_status(erp)
         IN IF ~found.order THEN found.calls
            ELSE IF ~updated.success THEN found.calls \o updated.calls
            ELSE found.calls \o updated.calls
                   \o register_webpay_transaction(erp, tx_status(payment_result),
                                                  OrderName)
    ELSE <<>>


\* the redirect of the commit handlers' `except Exception`, and of a POST without token:
\* the first active client's ERP, or localhost when there is none
fallback_url ==
    IF get_active_clients # <<>> THEN get_active_clients[1].odoo_url ELSE LocalhostUrl

has_cancellation_marker_truthy(params) ==
    "TBK_TOKEN" \in DOMAIN params /\ ~Falsy(params["TBK_TOKEN"])

\* "TBK_TOKEN" in params
has_cancellation_marker(params) == "TBK_TOKEN" \in DOMAIN params

\* the part both commit handlers share once the client is settled: the ERP step on a
\* successful result, the rejected redirect otherwise
finish_commit(client, committed, erp) ==
    IF is_transaction_successful(committed.result)
    THEN IF OdooSalesService_init_raises(1)
         THEN Answer(Redirect(fallback_url, "/shop/payment", "error", None),
                     committed.calls)
         ELSE Answer(Redirect(client.odoo_url, "/shop/confirmation", "success",
                              Str(committed.result.buy_order)),
                     committed.calls \o process_successful_payment(committed.result, erp))
    ELSE Answer(Redirect(client.odoo_url, "/shop/payment", "rejected", None),
                committed.calls)

\* commit_webpay_transaction_post
commit_webpay_transaction_post(form, gw, erp) ==
    LET token == DictGet(form, "token_ws", None)
        committed == commit_transaction(webpay_service, token, gw)
        identified == identify_client_from_result(committed.result)
        client == IF identified = NoClient THEN first_active_client ELSE identified
    IN IF Falsy(token)
       THEN Answer(Redirect(fallback_url, "/shop/payment", "cancelled", None), <<>>)
       ELSE IF committed.raised
       THEN Answer(Redirect(fallback_url, "/shop/payment", "error", None), committed.calls)
       ELSE IF client = NoClient
       THEN Answer(Redirect("", "/shop/payment", "error", None), committed.calls)
       ELSE finish_commit(client, committed, erp)

\* commit_webpay_transaction_get
commit_webpay_transaction_get(params, referer, gw, erp) ==
    LET token == DictGet(params, "token_ws", None)
        origin == IF referer = NoneStr THEN <<>> ELSE referer
        by_origin == IF origin # <<>> THEN get_client_from_origin(Str(RStripSlash(origin)))
                     ELSE NoClient
        client == IF by_origin = NoClient THEN first_active_client ELSE by_origin
        committed == commit_transaction(webpay_service, token, gw)
        client_from_result == identify_client_from_result(committed.result)
    IN IF client = NoClient
       THEN Answer(Redirect("", "/shop/payment", "error", None), <<>>)
       ELSE IF Falsy(token)
       THEN IF has_cancellation_marker(params)
            THEN Answer(Redirect(client.odoo_url, "/shop/payment", "cancelled", None), <<>>)
            ELSE Answer(Redirect(client.odoo_url, "/shop/payment", "error", None), <<>>)
       ELSE IF committed.raised
       THEN Answer(Redirect(fallback_url, "/shop/payment", "error", None), committed.calls)
       ELSE finish_commit(IF client_from_result # NoClient THEN client_from_result ELSE client,
                          committed, erp)

---------------------------------------------------------------------------
(* Inputs *)

\* values of abs(hash(...)), before the % 1000000 of the code
HashSamples == {0, 7123456}

\* a buy_order as create_transaction builds it, and one of the older "O-<n>" form
SampleBuyOrders ==
    {build_buy_order(sanitize_customer_name(JuanPerez), 10000,
                     RemoveChar(Date20251019, "-"), 0),
     <<"O", "-", "7">>}

\* the result dicts Transaction.commit may answer: status and response_code present
\* or absent
CommitResults ==
    {[buy_order |-> b] @@ st @@ rc :
        b \in SampleBuyOrders,
        st \in {EmptyDict, [status |-> "AUTHORIZED"], [status |-> "FAILED"]},
        rc \in {EmptyDict, [response_code |-> 0], [response_code |-> -1]}}

\* the same results with the amount field the gateway echoes: absent, the amount of
\* the transaction, zero
ResultsWithAmount ==
    {r @@ am : r \in CommitResults,
               am \in {EmptyDict, [amount |-> <<"1", "0", "0", "0", "0">>],
                       [amount |-> <<"0">>]}}

GatewayNotCalled == [called |-> FALSE, raised |-> FALSE, result |-> EmptyDict]

\* Transaction.commit(token): an exception, or a result
CommitOutcomes ==
    {[called |-> TRUE, raised |-> TRUE, result |-> EmptyDict]}
      \cup {[called |-> TRUE, raised |-> FALSE, result |-> r] : r \in CommitResults}

\* the fields of a commit callback: token_ws and TBK_TOKEN, each absent, empty or set
CallbackFields ==
    {tk @@ tbk :
        tk \in {EmptyDict, [token_ws |-> ""], [token_ws |-> "tok1"]},
        tbk \in {EmptyDict, [TBK_TOKEN |-> ""], [TBK_TOKEN |-> "tbk1"]}}

\* Referer of a GET callback: none, the gateway's page, a client's origin
RefererHeaders ==
    {NoneStr, <<"https://webpay3gint.transbank.cl">>}
      \cup {<<clients[i].allowed_origin>> : i \in DOMAIN clients}
      \cup {<<clients[i].allowed_origin, "/">> : i \in DOMAIN clients \cap {1}}

\* the client whose storefront initiated the transaction of a callback (0: unknown)
Owners ==
    IF get_active_clients = <<>> THEN {0}
    ELSE {get_active_clients[i].client_id : i \in DOMAIN get_active_clients}

\* what the ERP is ready to answer to the reconciliation of a successful commit: it
\* authenticates, accepts the writes and holds no payment record yet; the order
\* lookup and the confirm action answer in every way
ErpInputs(gw, client_known) ==
    IF /\ gw.called /\ ~gw.raised /\ client_known
       /\ is_transaction_successful(gw.result)
    THEN {erp \in ErpScenarios :
            /\ erp.auth /\ erp.force /\ erp.tx_write /\ erp.note = "ok"
            /\ erp.tx_search = "none" /\ erp.search # "error"}
    ELSE {ErpNotReached}

Environments ==
    [ODOO_URL : {None, "https://c1.odoo.com"}, WEBPAY_PROVIDER_ID : {None, "22"}]

NoRequest == [handler |-> "none"]
NoResponse == [kind |-> "none"]

---------------------------------------------------------------------------
(* Spec: the HTTP handlers *)

\* the handlers read a client's enabled flag, url and origin, never its integration
\* type (they call the module-level webpay_service): one type stands for all here
Init ==
    /\ \E f \in ClientFiles :
          /\ \A i \in DOMAIN f : f[i][2] = "TEST"
          /\ clients = LoadClients(f)
          /\ domain_to_client = DomainMap(LoadClients(f))
    /\ env \in Environments
    /\ gateway = <<>>
    /\ uid = None
    /\ payment_transactions = <<>>
    /\ tenants = <<>>
    /\ req = NoRequest
    /\ resp = NoResponse
    /\ calls = <<>>

\* POST /webpay/commit
CommitPost ==
    /\ req = NoRequest
    /\ \E form \in CallbackFields :
      \E gw \in (IF Falsy(DictGet(form, "token_ws", None))
                 THEN {GatewayNotCalled} ELSE CommitOutcomes) :
        \E erp \in ErpInputs(gw, get_active_clients # <<>>), owner \in Owners :
          LET answer == commit_webpay_transaction_post(form, gw, erp)
          IN /\ req' = [handler |-> "commit_post", params |-> form, referer |-> NoneStr,
                        gw |-> gw, erp |-> erp,
                        owner |-> IF gw.called THEN owner ELSE 0]
             /\ resp' = answer.resp
             /\ calls' = answer.calls
             /\ UNCHANGED <<uid, domain_to_client, tenants, payment_transactions, clients, env, gateway>>

\* GET /webpay/commit
CommitGet ==
    /\ req = NoRequest
    /\ \E params \in CallbackFields, referer \in RefererHeaders :
      \E gw \in (IF Falsy(DictGet(params, "token_ws", None)) \/ get_active_clients = <<>>
                 THEN {GatewayNotCalled} ELSE CommitOutcomes) :
        \E erp \in ErpInputs(gw, get_active_clients # <<>>), owner \in Owners :
          LET answer == commit_webpay_transaction_get(params, referer, gw, erp)
          IN /\ req' = [handler |-> "commit_get", params |-> params, referer |-> referer,
                        gw |-> gw, erp |-> erp,
                        owner |-> IF gw.called THEN owner ELSE 0]
             /\ resp' = answer.resp
             /\ calls' = answer.calls
             /\ UNCHANGED <<uid, domain_to_client, tenants, payment_transactions, clients, env, gateway>>


\* Transaction.create: an exception, or the token and payment-page url; with it the
\* values of the two hash() calls and of datetime.utcnow() of that create_transaction
CreateOutcomes(token) ==
    [called : {TRUE}, raised : BOOLEAN, token : {token},
     url : {"https://webpay3gint.transbank.cl/webpayserver/initTransaction"},
     hash_buy : {h % HashModulus : h \in HashSamples},
     hash_session : {h % HashModulus : h \in HashSamples}, today : {Today}]

CreateNotCalled ==
    [called |-> FALSE, raised |-> FALSE, token |-> None, url |-> None,
     hash_buy |-> 0, hash_session |-> 0, today |-> Today]

OriginHeaders ==
    {NoneStr, <<"https://c1.odoo.com">>, <<"https://c1.odoo.com", "/">>,
     <<LocalhostUrl>>, <<"https://evil.example">>}

InitBodies ==
    {EmptyDict,
     [amount |-> Amount("int", 10000), customer_name |-> JuanPerez,
      order_date |-> Date20251019],
     [amount |-> Amount("int", 10000), customer_name |-> JuanPerez,
      order_date |-> Date20251019, tenant_id |-> <<"z">>]}

\* POST /webpay/init: the dependency verify_frontend_request, then the handler
InitRequest ==
    /\ req = NoRequest
    /\ \E origin_header \in OriginHeaders,
       referer \in {NoneStr, <<"https://tecnogrow.odoo.com">>},
       client_host \in {"127.0.0.1", "203.0.113.9"},
       timestamp \in {None, "fresh", "stale"},
       data \in InitBodies :
      LET verified == verify_origin(origin_header, referer, client_host)
          validation == verify_frontend_request(verified.origin, timestamp)
      IN \E gw \in (IF verified.ok /\ validation_client(validation) # NoClient
                    THEN CreateOutcomes("tok1") ELSE {CreateNotCalled}) :
           LET answer == init_webpay_transaction(validation, data, gw)
           IN /\ req' = [handler |-> "init", origin_header |-> origin_header,
                         referer |-> referer, client_host |-> client_host,
                         timestamp |-> timestamp, data |-> data, gw |-> gw,
                         verified |-> verified]
              /\ resp' = IF verified.ok THEN answer.resp
                         ELSE [kind |-> "http_error", status |-> verified.http_status]
              /\ calls' = IF verified.ok THEN answer.calls ELSE <<>>
              /\ UNCHANGED <<uid, domain_to_client, tenants, payment_transactions, clients, env, gateway>>

\* the response is sent: the request's scope ends
SendResponse ==
    /\ req # NoRequest
    /\ req' = NoRequest
    /\ resp' = NoResponse
    /\ calls' = <<>>
    /\ UNCHANGED <<uid, domain_to_client, tenants, payment_transactions, clients, env, gateway>>

Next == InitRequest \/ CommitPost \/ CommitGet \/ SendResponse

Spec == Init /\ [][Next]_vars

---------------------------------------------------------------------------
(* SpecService: WebpayService on the module-level instance of the routes *)

\* every clients.yaml with at least one client, all enabled
ServiceClientFiles ==
    UNION {[1..n -> {TRUE} \X IntegrationTypes] : n \in 1..MaxClients}

\* the arguments of create_transaction: the end-to-end example, and nothing usable
ServiceInputs ==
    {[amount |-> Amount("int", 10000), customer_name |-> JuanPerez,
      order_date |-> Date20251019],
     [amount |-> Amount("text", 0), customer_name |-> NoneStr, order_date |-> NoneStr]}

\* what Transaction.commit answers for a transaction the gateway holds
ServiceCommitOutcomes(tx) ==
    {[called |-> TRUE, raised |-> TRUE, result |-> EmptyDict],
     [called |-> TRUE, raised |-> FALSE,
      result |-> [buy_order |-> tx.buy_order, status |-> "AUTHORIZED", response_code |-> 0]],
     [called |-> TRUE, raised |-> FALSE,
      result |-> [buy_order |-> tx.buy_order, status |-> "FAILED", response_code |-> -1]]}

UnknownToken == "tok-unknown"

InitService ==
    /\ \E f \in ServiceClientFiles :
          /\ clients = LoadClients(f)
          /\ domain_to_client = DomainMap(LoadClients(f))
    /\ env = [ODOO_URL |-> "https://c1.odoo.com", WEBPAY_PROVIDER_ID |-> "22"]
    /\ gateway = <<>>
    /\ uid = None
    /\ payment_transactions = <<>>
    /\ tenants = [i \in DOMAIN clients |->
                    [id |-> TenantId(i), origins |-> <<>>,
                     base_url |-> clients[i].odoo_url]]
    /\ req = NoRequest
    /\ resp = NoResponse
    /\ calls = <<>>

\* webpay_service.create_transaction(amount, customer_name, order_date), called while
\* serving a storefront of client `tenant`
SvcCreate ==
    /\ req = NoRequest
    /\ Len(gateway) < MaxTx
    /\ \E tenant \in DOMAIN clients, input \in ServiceInputs :
         \E gw \in CreateOutcomes("tok" \o ToString(Len(gateway) + 1)) :
           LET out == create_transaction(webpay_service, input.amount,
                          input.customer_name, input.order_date,
                          gw.hash_buy, gw.hash_session, gw.today, gw)
           IN /\ req' = [handler |-> "create_transaction", tenant |-> tenant,
                         input |-> input, gw |-> gw]
              /\ resp' = IF out.raised THEN [kind |-> "raised"]
                         ELSE [kind |-> "result", body |-> out.response]
              /\ calls' = out.calls
              /\ gateway' = IF out.raised THEN gateway
                            ELSE Append(gateway,
                                        [token |-> gw.token,
                                         tenant |-> tenant,
                                         buy_order |-> out.calls[1].buy_order,
                                         commerce_code |-> out.calls[1].commerce_code,
                                         api_key |-> out.calls[1].api_key,
                                         integration_type |-> out.calls[1].integration_type])
              /\ UNCHANGED <<uid, domain_to_client, tenants, payment_transactions, clients, env>>

\* webpay_service.commit_transaction(token) for a token the gateway issued
SvcCommit ==
    /\ req = NoRequest
    /\ \E i \in DOMAIN gateway :
         \E gw \in ServiceCommitOutcomes(gateway[i]) :
           LET out == commit_transaction(webpay_service, gateway[i].token, gw)
           IN /\ req' = [handler |-> "commit_transaction", token |-> gateway[i].token,
                         tx |-> i, gw |-> gw]
              /\ resp' = IF out.raised THEN [kind |-> "raised"]
                         ELSE [kind |-> "result", body |-> out.result]
              /\ calls' = out.calls
              /\ UNCHANGED <<uid, domain_to_client, tenants, payment_transactions, clients, env, gateway>>

\* webpay_service.commit_transaction(token) for a token this process never saw:
\* the gateway refuses it
SvcCommitUnknown ==
    /\ req = NoRequest
    /\ LET out == commit_transaction(webpay_service, UnknownToken,
                      [called |-> TRUE, raised |-> TRUE, result |-> EmptyDict])
       IN /\ req' = [handler |-> "commit_transaction", token |-> UnknownToken,
                     tx |-> 0, gw |-> [called |-> TRUE, raised |-> TRUE,
                                       result |-> EmptyDict]]
          /\ resp' = IF out.raised THEN [kind |-> "raised"]
                     ELSE [kind |-> "result", body |-> out.result]
          /\ calls' = out.calls
          /\ UNCHANGED <<uid, domain_to_client, tenants, payment_transactions, clients, env, gateway>>

\* the configurations a WebpayService may be constructed with: none, or a client of
\* any integration_type, with or without commerce_code and api_key.  WebpayConfig
\* refuses "CERTIFICATION" and "PRODUCTION" (spelled so) without both credentials
ConstructInputs ==
    {NoClient}
      \cup {c \in {[ClientConfig(1, TRUE, itype) EXCEPT !.commerce_code = cc,
                                                       !.api_key = key] :
                     itype \in IntegrationTypes
                                \cup {"test", "certification", "production", "live",
                                      "LIVE", "PROD", "STAGING", ""},
                     cc \in {None, "", "cc-1"}, key \in {None, "key-1"}} :
              c.integration_type \in {"CERTIFICATION", "PRODUCTION"}
                => ~Falsy(c.commerce_code) /\ ~Falsy(c.api_key)}

\* WebpayService(client_config)
SvcConstruct ==
    /\ req = NoRequest
    /\ \E client_config \in ConstructInputs :
         /\ req' = [handler |-> "WebpayService", client_config |-> client_config]
         /\ resp' = [kind |-> "options"] @@ WebpayService_init(client_config)
    /\ calls' = <<>>
    /\ UNCHANGED <<uid, domain_to_client, tenants, payment_transactions, clients, env, gateway>>

\* the call returned (or raised) to its caller
SvcReturn ==
    /\ req # NoRequest
    /\ req' = NoRequest
    /\ resp' = NoResponse
    /\ calls' = <<>>
    /\ UNCHANGED <<uid, domain_to_client, tenants, payment_transactions, clients, env, gateway>>

NextService == SvcCreate \/ SvcCommit \/ SvcCommitUnknown \/ SvcConstruct \/ SvcReturn

SpecService == InitService /\ [][NextService]_vars

---------------------------------------------------------------------------
(* SpecCodec: the identifier codec, from create_transaction to the commit callback *)

\* str(10 ** (n - 1)): the smallest amount of n digits
PowerOfTen(n) == <<"1">> \o [i \in 1..(n - 1) |-> "0"]

\* str(amount) of the amounts tried: a power of ten of every length, the example
\* amount, zero and a negative amount
CodecAmounts ==
    {PowerOfTen(n) : n \in 1..MaxAmountDigits}
      \cup {<<"1", "0", "0", "0", "0">>, <<"0">>, <<"-", "5">>}

MariaFernanda ==
    <<"M", "a", "r", "i", "a", " ", "F", "e", "r", "n", "a", "n", "d", "a", " ",
      "G", "o", "n", "z", "a", "l", "e", "z">>

CodecNames == {JuanPerez, MariaFernanda, NoneStr, <<" ", " ">>}

\* order dates: the example, one of a single-digit month and day, none, an impossible one
CodecDates ==
    {Date20251019, <<"2", "0", "2", "5", "-", "0", "1", "-", "0", "9">>, NoneStr,
     <<"2", "0", "2", "5", "-", "0", "2", "-", "3", "0">>}

InitCodec ==
    /\ clients = <<>>
    /\ domain_to_client = EmptyDict
    /\ env = [ODOO_URL |-> "https://c1.odoo.com", WEBPAY_PROVIDER_ID |-> "22"]
    /\ gateway = <<>>
    /\ uid = None
    /\ payment_transactions = <<>>
    /\ tenants = <<>>
    /\ req = NoRequest
    /\ resp = NoResponse
    /\ calls = <<>>

\* create_transaction up to the buy_order: label, normalized date, date token, buy_order
CodecBuild ==
    /\ req = NoRequest
    /\ \E customer_name \in CodecNames, amount_str \in CodecAmounts,
          order_date \in CodecDates, hash_buy \in {h % HashModulus : h \in HashSamples} :
         LET customer_label == sanitize_customer_name(customer_name)
             order_date_str == normalize_order_date(order_date, Today)
             date_token == RemoveChar(order_date_str, "-")
         IN /\ req' = [handler |-> "build_buy_order", customer_name |-> customer_name,
                       amount_str |-> amount_str, order_date |-> order_date,
                       hash_buy |-> hash_buy]
            /\ resp' = [kind |-> "built",
                        customer_label |-> customer_label,
                        order_date_str |-> order_date_str,
                        date_token |-> date_token,
                        buy_order |-> build_buy_order_str(customer_label, amount_str,
                                                          date_token, hash_buy)]
            /\ UNCHANGED <<uid, domain_to_client, tenants, payment_transactions, clients, env, gateway, calls>>

\* the value went back to the caller
CodecReturn ==
    /\ req # NoRequest
    /\ req' = NoRequest
    /\ resp' = NoResponse
    /\ UNCHANGED <<uid, domain_to_client, tenants, payment_transactions, clients, env, gateway, calls>>

\* the commit callback of that transaction: _process_successful_payment reads the
\* gateway result, which carries the buy_order and echoes the amount or not
CodecParse ==
    /\ req.handler = "build_buy_order"
    /\ \E echoed \in BOOLEAN :
         LET payment_result ==
                 [buy_order |-> resp.buy_order]
                   @@ (IF echoed THEN [amount |-> req.amount_str] ELSE EmptyDict)
         IN /\ req' = [handler |-> "parse_buy_order", given |-> req, built |-> resp,
                       payment_result |-> payment_result]
            /\ resp' = [kind |-> "parsed"] @@ parse_payment_result(payment_result, Today)
    /\ UNCHANGED <<uid, domain_to_client, tenants, payment_transactions, clients, env, gateway, calls>>

\* customer names of every kind: None, empty, blank, non-ASCII, not a str
SanitizeInputs ==
    {NoneStr, <<>>, <<" ", " ">>, <<"\t">>, JuanPerez, MariaFernanda, <<"é", "ñ">>,
     <<"-">>, <<"a", "_", "b">>, NotAStr}

\* order dates of every kind: None, empty, valid, unpadded, malformed, impossible,
\* not a str
NormalizeInputs ==
    CodecDates
      \cup {<<>>, <<"2", "0", "2", "5", "-", "1", "-", "9">>, <<"x">>,
            <<"1", "9", "/", "1", "0", "/", "2", "0", "2", "5">>,
            <<"2", "0", "2", "5", "-", "1", "3", "-", "0", "1">>, NotAStr}

\* self._sanitize_customer_name(customer_name)
CodecSanitize ==
    /\ req = NoRequest
    /\ \E value \in SanitizeInputs :
         /\ req' = [handler |-> "sanitize_customer_name", value |-> value]
         /\ resp' = IF sanitize_customer_name_raises(value) THEN [kind |-> "raised"]
                    ELSE [kind |-> "str", value |-> sanitize_customer_name(value)]
    /\ UNCHANGED <<uid, domain_to_client, tenants, payment_transactions, clients, env, gateway, calls>>

\* self._normalize_order_date(order_date)
CodecNormalize ==
    /\ req = NoRequest
    /\ \E value \in NormalizeInputs :
         /\ req' = [handler |-> "normalize_order_date", value |-> value]
         /\ resp' = IF normalize_order_date_raises(value) THEN [kind |-> "raised"]
                    ELSE [kind |-> "str", value |-> normalize_order_date(value, Today)]
    /\ UNCHANGED <<uid, domain_to_client, tenants, payment_transactions, clients, env, gateway, calls>>

\* buy_orders a gateway result may carry that create_transaction did not build: no
\* separator, one separator, empty, three parts with text for an amount, the ERP
\* order name
ResultBuyOrders ==
    {<<"j", "u", "a", "n", "-", "p", "e", "r", "e", "z">>,
     <<"j", "u", "a", "n", "_", "1", "0", "0", "0", "0">>,
     <<>>,
     <<"j", "u", "a", "n", "_", "x", "x", "_", "2", "0", "2", "5", "1", "0", "1", "9">>,
     <<"S", "0", "4", "5", "8", "9">>}

\* the amount field of a gateway result: a number, a fraction, text, None
ResultAmounts ==
    {<<"1", "0", "0", "0", "0">>, <<"1", "2", ".", "5">>, <<"x", "x">>, NoneStr}

\* _process_successful_payment on a gateway result of any buy_order, up to the ERP
\* lookup
CodecParseResult ==
    /\ req = NoRequest
    /\ \E buy_order \in ResultBuyOrders, has_amount \in BOOLEAN, amount \in ResultAmounts :
         LET payment_result ==
                 [buy_order |-> buy_order]
                   @@ (IF has_amount THEN [amount |-> amount] ELSE EmptyDict)
         IN /\ req' = [handler |-> "parse_payment_result",
                       payment_result |-> payment_result]
            /\ resp' = [kind |-> "parsed"] @@ parse_payment_result(payment_result, Today)
    /\ UNCHANGED <<uid, domain_to_client, tenants, payment_transactions, clients, env, gateway, calls>>

NextCodec ==
    \/ CodecBuild \/ CodecParse \/ CodecSanitize \/ CodecNormalize
    \/ CodecParseResult \/ CodecReturn

SpecCodec == InitCodec /\ [][NextCodec]_vars

---------------------------------------------------------------------------
(* SpecReconcile: is_transaction_successful and _process_successful_payment, called *)
(* with an OdooSalesService that was constructed *)

InitReconcile ==
    /\ clients = <<>>
    /\ domain_to_client = EmptyDict
    /\ env = [ODOO_URL |-> "https://c1.odoo.com", WEBPAY_PROVIDER_ID |-> "22"]
    /\ gateway = <<>>
    /\ uid = None
    /\ payment_transactions = <<>>
    /\ tenants = <<>>
    /\ req = NoRequest
    /\ resp = NoResponse
    /\ calls = <<>>

\* webpay_service.is_transaction_successful(transaction_result)
ReconcileIsSuccessful ==
    /\ req = NoRequest
    /\ \E transaction_result \in CommitResults :
         /\ req' = [handler |-> "is_transaction_successful", result |-> transaction_result]
         /\ resp' = [kind |-> "bool", value |-> is_transaction_successful(transaction_result)]
    /\ UNCHANGED <<uid, domain_to_client, tenants, payment_transactions, clients, env, gateway, calls>>

\* await _process_successful_payment(payment_result, odoo_service, client)
ReconcileProcess ==
    /\ req = NoRequest
    /\ ~OdooSalesService_init_raises(0)
    /\ \E payment_result \in ResultsWithAmount, erp \in ErpScenarios :
         /\ req' = [handler |-> "process_successful_payment", result |-> payment_result,
                    erp |-> erp]
         /\ resp' = [kind |-> "returned"]
         /\ calls' = process_successful_payment(payment_result, erp)
    /\ UNCHANGED <<uid, domain_to_client, tenants, payment_transactions, clients, env, gateway>>

\* what the ERP answers to register_webpay_transaction called with the order data of
\* get_order_by_id, which has a currency_id or not
RegisterScenarios ==
    {[erp EXCEPT !.order_currency = oc, !.clp = clp] :
        erp \in {e \in ErpScenarios :
                   /\ e.auth /\ e.search = "order" /\ e.confirm.kind = "result"
                   /\ e.force /\ e.note = "ok"},
        oc \in {None, "12"}, clp \in {"found", "none", "error"}}

\* odoo_service.register_webpay_transaction(order_id, order_name, amount, status, ...)
ReconcileRegister ==
    /\ req = NoRequest
    /\ ~OdooSalesService_init_raises(0)
    /\ \E status \in {"done", "error"}, erp \in RegisterScenarios :
         /\ req' = [handler |-> "register_webpay_transaction", status |-> status,
                    erp |-> erp]
         /\ resp' = [kind |-> "returned"]
         /\ calls' = register_webpay_transaction(erp, status, OrderName)
    /\ UNCHANGED <<uid, domain_to_client, tenants, payment_transactions, clients, env, gateway>>

ReconcileReturn ==
    /\ req # NoRequest
    /\ req' = NoRequest
    /\ resp' = NoResponse
    /\ calls' = <<>>
    /\ UNCHANGED <<uid, domain_to_client, tenants, payment_transactions, clients, env, gateway>>

NextReconcile ==
    \/ ReconcileIsSuccessful \/ ReconcileProcess \/ ReconcileRegister
    \/ ReconcileReturn

SpecReconcile == InitReconcile /\ [][NextReconcile]_vars

\* the state of the sale.order after the calls: action_confirm answered without error,
\* or the ERP accepted the write of {"state": "sale"}; a quotation otherwise
OrderStateAfter(erp, issued) ==
    IF \/ \E i \in DOMAIN issued :
            issued[i].api = "erp.confirm" /\ erp.confirm.kind = "result"
       \/ \E i \in DOMAIN issued :
            issued[i].api = "erp.force_state" /\ issued[i].state = "sale" /\ erp.force
    THEN "sale" ELSE "draft"

---------------------------------------------------------------------------
(* SpecIdempotent: register_webpay_transaction for one successful callback, handled *)
(* by the GET and by the POST handler, one ERP round trip at a time.  Each round    *)
(* trip is a blocking call of its handler: handlers of one worker process run one   *)
(* after the other, handlers of different worker processes (WEB_CONCURRENCY > 1)    *)
(* overlap *)

Handlers == {"commit_get", "commit_post"}

\* the handler is not inside register_webpay_transaction
Outside(h) == req[h].pc \in {"idle", "returned"}

\* the handler may take its next step: with one worker process the other handler does
\* not run while this one has not returned
MayRun(h) ==
    env.WEB_CONCURRENCY = "1" => \A other \in Handlers \ {h} : Outside(other)

\* the ids of the records a search by (provider_id, reference) with limit 1 returns
existing_ids(reference) ==
    LET matching == {i \in DOMAIN payment_transactions :
                       /\ payment_transactions[i].provider_id = env.WEBPAY_PROVIDER_ID
                       /\ payment_transactions[i].reference = reference}
    IN IF matching = {} THEN <<>>
       ELSE <<CHOOSE i \in matching : \A j \in matching : i <= j>>

InitIdempotent ==
    /\ clients = <<>>
    /\ domain_to_client = EmptyDict
    /\ env \in [ODOO_URL : {"https://c1.odoo.com"}, WEBPAY_PROVIDER_ID : {"22"},
                WEB_CONCURRENCY : {"1", "2"}]
    /\ gateway = <<>>
    /\ uid = None
    /\ payment_transactions = <<>>
    /\ tenants = <<>>
    /\ req = [h \in Handlers |-> [pc |-> "idle", existing_ids |-> <<>>, handled |-> 0]]
    /\ resp = [h \in Handlers |-> NoResponse]
    /\ calls = <<>>

\* register_webpay_transaction up to existing_ids: the search answers with a result,
\* with HTTP 200 and a JSON-RPC error (no "result": existing_ids = []), or with a
\* status that is not ok (return False)
RegisterSearch(h) ==
    /\ req[h].pc = "idle"
    /\ req[h].handled < MaxHandlings
    /\ MayRun(h)
    /\ \E answer \in {"result", "jsonrpc_error", "http_error"} :
         /\ req' = [req EXCEPT ![h].pc = IF answer = "http_error" THEN "returned"
                                         ELSE "searched",
                               ![h].existing_ids = IF answer = "result"
                                                   THEN existing_ids(OrderName)
                                                   ELSE <<>>]
         /\ resp' = [resp EXCEPT ![h] = IF answer = "http_error"
                                        THEN [kind |-> "bool", value |-> FALSE]
                                        ELSE NoResponse]
    /\ calls' = Append(calls, TxSearch(OrderName) @@ [by |-> h])
    /\ UNCHANGED <<uid, domain_to_client, tenants, payment_transactions, clients, env, gateway>>

\* if existing_ids: write tx_vals on the record, and link it when the write is accepted
RegisterWrite(h) ==
    /\ req[h].pc = "searched"
    /\ req[h].existing_ids # <<>>
    /\ MayRun(h)
    /\ \E accepted \in BOOLEAN :
         /\ payment_transactions' =
               IF accepted
               THEN [payment_transactions EXCEPT ![req[h].existing_ids[1]].state = "done"]
               ELSE payment_transactions
         /\ resp' = [resp EXCEPT ![h] = [kind |-> "bool", value |-> accepted]]
         /\ calls' = calls \o <<TxWrite("erp.tx_write", "done", OrderName) @@ [by |-> h]>>
                       \o (IF accepted THEN <<ErpCall("erp.link") @@ [by |-> h]>>
                           ELSE <<>>)
    /\ req' = [req EXCEPT ![h].pc = "returned"]
    /\ UNCHANGED <<uid, domain_to_client, tenants, clients, env, gateway>>

\* otherwise: create a record from tx_vals, and link it when the create is accepted
RegisterCreate(h) ==
    /\ req[h].pc = "searched"
    /\ req[h].existing_ids = <<>>
    /\ MayRun(h)
    /\ \E accepted \in BOOLEAN :
         /\ payment_transactions' =
               IF accepted
               THEN Append(payment_transactions,
                           [provider_id |-> env.WEBPAY_PROVIDER_ID,
                            reference |-> OrderName, state |-> "done"])
               ELSE payment_transactions
         /\ resp' = [resp EXCEPT ![h] = [kind |-> "bool", value |-> accepted]]
         /\ calls' = calls \o <<TxWrite("erp.tx_create", "done", OrderName) @@ [by |-> h]>>
                       \o (IF accepted THEN <<ErpCall("erp.link") @@ [by |-> h]>>
                           ELSE <<>>)
    /\ req' = [req EXCEPT ![h].pc = "returned"]
    /\ UNCHANGED <<uid, domain_to_client, tenants, clients, env, gateway>>

\* the handler answers its request; the gateway or the browser may call it again
RegisterReturn(h) ==
    /\ req[h].pc = "returned"
    /\ req' = [req EXCEPT ![h] = [pc |-> "idle", existing_ids |-> <<>>,
                                  handled |-> req[h].handled + 1]]
    /\ resp' = [resp EXCEPT ![h] = NoResponse]
    /\ calls' = SelectSeq(calls, LAMBDA c : c.by # h)
    /\ UNCHANGED <<uid, domain_to_client, tenants, payment_transactions, clients, env, gateway>>

NextIdempotent ==
    \E h \in Handlers :
        \/ RegisterSearch(h)
        \/ RegisterWrite(h)
        \/ RegisterCreate(h)
        \/ RegisterReturn(h)

SpecIdempotent == InitIdempotent /\ [][NextIdempotent]_vars

---------------------------------------------------------------------------
(* SpecTenants: the TenantManager of src/tenants.py, constructed from TENANT_CONFIGS *)

PatternExample ==
    <<"h", "t", "t", "p", "s", ":", "/", "/", "*", ".", "e", "x", "a", "m", "p", "l", "e", ".", "c", "o", "m">>
ShopOrigin ==
    <<"h", "t", "t", "p", "s", ":", "/", "/", "s", "h", "o", "p", ".", "e", "x", "a", "m", "p", "l", "e", ".", "c", "o", "m">>
OtherOrigin ==
    <<"h", "t", "t", "p", "s", ":", "/", "/", "o", "t", "h", "e", "r", ".", "c", "o", "m">>

\* str.upper() on the ASCII letters of s
Upper(s) == [i \in DOMAIN s |-> UpperChar(s[i])]

\* an id of SessionMaxLen - 1 characters
LongTenantId == [i \in 1..(SessionMaxLen - 1) |-> "x"]

\* "id" of an entry: a slug, one that needs sanitizing (and then equals another), one
\* with a dash, none, a long one
RawTenantIds == {<<"a", "1">>, <<"A", "_", "1">>, <<"b", "-", "2">>, NoneStr, LongTenantId}

\* "origins" of an entry: a glob pattern, an exact origin written with a trailing slash,
\* a pattern with '?' and no '*' next to an empty string
OriginLists ==
    {<<PatternExample>>,
     <<OtherOrigin \o <<"/">>>>,
     <<<<>>, SubSeq(OtherOrigin, 1, Len(OtherOrigin) - 1) \o <<"?">>>>}

\* the entries TENANT_CONFIGS may hold
TenantEntries ==
    [id : RawTenantIds, origins : OriginLists, url : {"https://erp.example.com"},
     odoo_complete : BOOLEAN]

\* TENANT_CONFIGS: unset, or a list of entries
TenantConfigs ==
    UNION {[1..n -> TenantEntries] : n \in 0..MaxTenants}

\* the origins asked for
OriginProbes ==
    {NoneStr, <<>>, ShopOrigin, Upper(ShopOrigin) \o <<"/">>, OtherOrigin,
     OtherOrigin \o <<"/", "/">>, EnvChars(LocalhostUrl)}

\* the ids asked for: those of the registry, raw ids, none
IdProbes ==
    {tenants[i].id : i \in DOMAIN tenants}
      \cup {NoneStr, <<>>, <<"z">>, <<"A", "_", "1">>}

\* the raw session strings encoded
RawSessions ==
    {<<"a", "b", "c", "1", "2", "3">>, <<>>, <<"S", "-", "7">>, <<"x", "_", "_", "y">>,
     [i \in 1..SessionMaxLen |-> "9"]}

InitTenants ==
    /\ clients = <<>>
    /\ domain_to_client = EmptyDict
    /\ env = [ODOO_URL |-> None, WEBPAY_PROVIDER_ID |-> "22"]
    /\ gateway = <<>>
    /\ uid = None
    /\ payment_transactions = <<>>
    /\ \E entries \in TenantConfigs : tenants = TenantManager_init(entries)
    /\ req = NoRequest
    /\ resp = NoResponse
    /\ calls = <<>>

\* tenant_manager.get_tenant_by_origin(origin)
TenantByOrigin ==
    /\ req = NoRequest
    /\ \E origin \in OriginProbes :
         /\ req' = [handler |-> "get_tenant_by_origin", origin |-> origin]
         /\ resp' = [kind |-> "tenant", tenant |-> get_tenant_by_origin(origin)]
    /\ UNCHANGED <<uid, domain_to_client, tenants, payment_transactions, clients, env, gateway, calls>>

\* tenant_manager.get_tenant_by_id(tenant_id)
TenantById ==
    /\ req = NoRequest
    /\ \E tenant_id \in IdProbes :
         /\ req' = [handler |-> "get_tenant_by_id", tenant_id |-> tenant_id]
         /\ resp' = [kind |-> "tenant", tenant |-> get_tenant_by_id(tenant_id)]
    /\ UNCHANGED <<uid, domain_to_client, tenants, payment_transactions, clients, env, gateway, calls>>

\* tenant_manager.build_session_id(tenant, raw_session) for a tenant of the registry
BuildSessionId ==
    /\ req = NoRequest
    /\ \E t \in DOMAIN tenants, raw_session \in RawSessions :
         /\ req' = [handler |-> "build_session_id", tenant |-> t,
                    raw_session |-> raw_session]
         /\ resp' = [kind |-> "session",
                     session_id |-> build_session_id(tenants[t].id, raw_session)]
    /\ UNCHANGED <<uid, domain_to_client, tenants, payment_transactions, clients, env, gateway, calls>>

\* tenant_manager.tenant_from_session(session_id) on the session id just built
TenantFromSession ==
    /\ req.handler = "build_session_id"
    /\ req' = [handler |-> "tenant_from_session", session_id |-> resp.session_id,
               built_for |-> req.tenant]
    /\ resp' = [kind |-> "tenant", tenant |-> tenant_from_session(resp.session_id)]
    /\ UNCHANGED <<uid, domain_to_client, tenants, payment_transactions, clients, env, gateway, calls>>

TenantsReturn ==
    /\ req # NoRequest
    /\ req' = NoRequest
    /\ resp' = NoResponse
    /\ UNCHANGED <<uid, domain_to_client, tenants, payment_transactions, clients, env, gateway, calls>>

NextTenants ==
    TenantByOrigin \/ TenantById \/ BuildSessionId \/ TenantFromSession \/ TenantsReturn

SpecTenants == InitTenants /\ [][NextTenants]_vars

---------------------------------------------------------------------------
(* SpecLoader: the ClientConfigLoader of src/client_config.py and the clients.yaml it *)
(* reads.  Here a client holds its allowed_origins as a list of strings *)

\* re.match(allowed.replace("*", ".*").replace(".", r"\."), origin): the second replace
\* also escapes the dot the first one wrote, so "*" becomes \.* (any run of dots);
\* every other character stands for itself, and re.match need not reach the end
RECURSIVE re_match_wildcard(_, _)
re_match_wildcard(allowed, origin) ==
    IF allowed = <<>> THEN TRUE
    ELSE IF Head(allowed) = "*"
    THEN \/ re_match_wildcard(Tail(allowed), origin)
         \/ /\ origin # <<>> /\ Head(origin) = "."
            /\ re_match_wildcard(allowed, Tail(origin))
    ELSE /\ origin # <<>> /\ Head(origin) = Head(allowed)
         /\ re_match_wildcard(Tail(allowed), Tail(origin))

\* ClientConfig.is_origin_allowed
is_origin_allowed(client, origin) ==
    LET normalized_origin == RStripSlash(origin)
    IN \E i \in DOMAIN client.allowed_origins :
          LET allowed == client.allowed_origins[i]
          IN \/ RStripSlash(allowed) = normalized_origin
             \/ "*" \in Range(allowed) /\ re_match_wildcard(allowed, normalized_origin)

\* self._clients[client_config.client_id] = client_config: a dict keeps the place of a
\* key it already has
store_client(loaded, client) ==
    IF \E i \in DOMAIN loaded : loaded[i].client_id = client.client_id
    THEN [i \in DOMAIN loaded |->
            IF loaded[i].client_id = client.client_id THEN client ELSE loaded[i]]
    ELSE Append(loaded, client)

\* self._domain_to_client[origin.rstrip("/")] = client_id for the origins of a client
store_origins(mapping, client) ==
    LET keys == {RStripSlash(client.allowed_origins[i]) : i \in DOMAIN client.allowed_origins}
    IN [origin \in DOMAIN mapping \cup keys |->
          IF origin \in keys THEN client.client_id ELSE mapping[origin]]

\* the loop of load_clients over the entries of the file
RECURSIVE load_entries(_, _)
load_entries(loader, entries) ==
    IF entries = <<>> THEN loader
    ELSE load_entries([clients |-> store_client(loader.clients, Head(entries)),
                       domain_to_client |-> store_origins(loader.domain_to_client,
                                                          Head(entries))],
                      Tail(entries))

\* ClientConfigLoader.load_clients: nothing when clients.yaml does not exist
load_clients(loader, file) ==
    IF ~file.exists THEN loader ELSE load_entries(loader, file.clients)

\* reload that does not clear
reload_merging(loader, file) == load_clients(loader, file)

\* ClientConfigLoader.reload
reload(loader, file) ==
    load_clients([clients |-> <<>>, domain_to_client |-> EmptyDict], file)

\* position in _clients of the client of that id (0: none)
client_by_id(client_id) ==
    IF \E i \in DOMAIN clients : clients[i].client_id = client_id
    THEN CHOOSE i \in DOMAIN clients : clients[i].client_id = client_id
    ELSE 0

get_client_by_origin_any(origin) ==
    IF FalsyStr(origin) THEN 0
    ELSE LET normalized_origin == RStripSlash(origin)
             fast == IF normalized_origin \in DOMAIN domain_to_client
                     THEN client_by_id(domain_to_client[normalized_origin]) ELSE 0
             found == {i \in DOMAIN clients : is_origin_allowed(clients[i], normalized_origin)}
         IN IF fast # 0 THEN fast
            ELSE IF found # {} THEN CHOOSE i \in found : \A j \in found : i <= j
            ELSE 0

\* ClientConfigLoader.get_client_by_origin: position of the client returned (0: None)
get_client_by_origin(origin) ==
    IF FalsyStr(origin) THEN 0
    ELSE LET normalized_origin == RStripSlash(origin)
             fast == IF normalized_origin \in DOMAIN domain_to_client
                     THEN client_by_id(domain_to_client[normalized_origin]) ELSE 0
             found == {i \in DOMAIN clients :
                         /\ clients[i].enabled
                         /\ is_origin_allowed(clients[i], normalized_origin)}
         IN IF fast # 0 /\ clients[fast].enabled THEN fast
            ELSE IF found # {} THEN CHOOSE i \in found : \A j \in found : i <= j
            ELSE 0

\* allowed_origins of an entry: a wildcard, an origin written with a trailing slash,
\* two origins
AllowedOriginLists ==
    {<<PatternExample>>, <<ShopOrigin \o <<"/">>>>, <<ShopOrigin, OtherOrigin>>}

\* the clients of clients.yaml
LoaderEntries ==
    [client_id : {"a", "b"}, enabled : BOOLEAN, allowed_origins : AllowedOriginLists]

\* clients.yaml: missing, or a list of clients
LoaderFiles ==
    {[exists |-> FALSE, clients |-> <<>>]}
      \cup {[exists |-> TRUE, clients |-> cs] :
              cs \in UNION {[1..n -> LoaderEntries] : n \in 0..MaxClients}}

\* the origins asked for
LoaderProbes ==
    {NoneStr, <<>>, ShopOrigin, ShopOrigin \o <<"/">>, OtherOrigin,
     <<"h", "t", "t", "p", "s", ":", "/", "/", ".", "e", "x", "a", "m", "p", "l", "e",
       ".", "c", "o", "m", ".", "e", "v", "i", "l", ".", "o", "r", "g">>}

LoaderState == [clients |-> clients, domain_to_client |-> domain_to_client]

\* client_loader = ClientConfigLoader() at import
InitLoader ==
    /\ \E file \in LoaderFiles :
          LET loaded == load_clients([clients |-> <<>>, domain_to_client |-> EmptyDict],
                                     file)
          IN /\ clients = loaded.clients
             /\ domain_to_client = loaded.domain_to_client
    /\ env = [ODOO_URL |-> "https://c1.odoo.com", WEBPAY_PROVIDER_ID |-> "22"]
    /\ gateway = <<>>
    /\ uid = None
    /\ payment_transactions = <<>>
    /\ tenants = <<>>
    /\ req = NoRequest
    /\ resp = NoResponse
    /\ calls = <<>>

\* ClientConfigLoader(): the singleton loads again when it holds no client
LoaderConstruct ==
    /\ req = NoRequest
    /\ \E file \in LoaderFiles :
         LET loaded == IF clients = <<>> THEN load_clients(LoaderState, file)
                       ELSE LoaderState
         IN /\ req' = [handler |-> "ClientConfigLoader", file |-> file,
                       loads |-> (clients = <<>>),
                       had |-> {clients[i].client_id : i \in DOMAIN clients}]
            /\ clients' = loaded.clients
            /\ domain_to_client' = loaded.domain_to_client
    /\ resp' = [kind |-> "returned"]
    /\ UNCHANGED <<uid, tenants, payment_transactions, env, gateway, calls>>

\* client_loader.reload()
LoaderReload ==
    /\ req = NoRequest
    /\ \E file \in LoaderFiles :
         LET loaded == reload(LoaderState, file)
         IN /\ req' = [handler |-> "reload", file |-> file, loads |-> TRUE,
                       had |-> {clients[i].client_id : i \in DOMAIN clients}]
            /\ clients' = loaded.clients
            /\ domain_to_client' = loaded.domain_to_client
    /\ resp' = [kind |-> "returned"]
    /\ UNCHANGED <<uid, tenants, payment_transactions, env, gateway, calls>>

\* client_loader.get_client_by_origin(origin)
LoaderByOrigin ==
    /\ req = NoRequest
    /\ \E origin \in LoaderProbes :
         /\ req' = [handler |-> "get_client_by_origin", origin |-> origin]
         /\ resp' = [kind |-> "client", index |-> get_client_by_origin(origin)]
    /\ UNCHANGED <<uid, domain_to_client, tenants, payment_transactions, clients, env, gateway, calls>>

\* client.is_origin_allowed(origin)
LoaderIsOriginAllowed ==
    /\ req = NoRequest
    /\ \E i \in DOMAIN clients, origin \in LoaderProbes \ {NoneStr} :
         /\ req' = [handler |-> "is_origin_allowed", client |-> i, origin |-> origin]
         /\ resp' = [kind |-> "bool", value |-> is_origin_allowed(clients[i], origin)]
    /\ UNCHANGED <<uid, domain_to_client, tenants, payment_transactions, clients, env, gateway, calls>>

\* client_loader.get_active_clients(), of which the commit handlers take the first
LoaderActiveClients ==
    /\ req = NoRequest
    /\ req' = [handler |-> "get_active_clients"]
    /\ resp' = [kind |-> "clients", value |-> get_active_clients]
    /\ UNCHANGED <<uid, domain_to_client, tenants, payment_transactions, clients, env, gateway, calls>>

LoaderReturn ==
    /\ req # NoRequest
    /\ req' = NoRequest
    /\ resp' = NoResponse
    /\ UNCHANGED <<uid, domain_to_client, tenants, payment_transactions, clients, env, gateway, calls>>

NextLoader ==
    \/ LoaderConstruct \/ LoaderReload \/ LoaderByOrigin \/ LoaderIsOriginAllowed
    \/ LoaderActiveClients \/ LoaderReturn

SpecLoader == InitLoader /\ [][NextLoader]_vars

---------------------------------------------------------------------------
(* SpecSession: one OdooSalesService and its self.uid over a sequence of operations *)

\* what the ERP answers to common.authenticate: a uid, a false result or an error
\* block, an HTTP status that is not ok, or no answer (the request raises)
AuthOutcomes == {"uid", "denied", "http_error", "exception"}

\* the uid the ERP gives
SessionUid == "7"

\* OdooSalesService.authenticate: self.uid is assigned on success only
authenticate(current_uid, outcome) ==
    [ok |-> outcome = "uid",
     uid |-> IF outcome = "uid" THEN SessionUid ELSE current_uid,
     calls |-> <<ErpCall("erp.authenticate")>>]

\* the execute_kw calls of an operation carry self.uid
WithUid(issued, current_uid) == [i \in DOMAIN issued |-> issued[i] @@ [uid |-> current_uid]]

\* an operation that goes on when authenticate returned False
when_authenticated_unguarded(current_uid, outcome, failure, body) ==
    LET auth == IF current_uid = None THEN authenticate(current_uid, outcome)
                ELSE [ok |-> TRUE, uid |-> current_uid, calls |-> <<>>]
    IN [uid |-> auth.uid, value |-> body.value,
        calls |-> auth.calls \o WithUid(body.calls, auth.uid)]

\* `if not self.uid: if not self.authenticate(): return <failure>` and then the body
when_authenticated(current_uid, outcome, failure, body) ==
    LET auth == IF current_uid = None THEN authenticate(current_uid, outcome)
                ELSE [ok |-> TRUE, uid |-> current_uid, calls |-> <<>>]
    IN IF ~auth.ok THEN [uid |-> auth.uid, value |-> failure, calls |-> auth.calls]
       ELSE [uid |-> auth.uid, value |-> body.value,
             calls |-> auth.calls \o WithUid(body.calls, auth.uid)]

SessionOperations ==
    {"find_order_by_criteria", "update_order_payment_status",
     "register_webpay_transaction", "get_order_by_id"}

\* what each operation returns when authentication fails
failure_value(operation) ==
    IF operation \in {"find_order_by_criteria", "get_order_by_id"} THEN None ELSE "False"

\* the object calls of each operation once self.uid is set, and the value returned
operation_body(operation, erp) ==
    CASE operation = "find_order_by_criteria" ->
            LET found == find_order_by_criteria(erp, <<"J", "u", "a", "n">>,
                                                <<"1", "0", "0", "0", "0">>, Date20251019)
            IN [value |-> IF found.order THEN "order" ELSE None,
                calls |-> Tail(found.calls)]
      [] operation = "update_order_payment_status" ->
            [value |-> IF update_order_payment_status(erp).success THEN "True" ELSE "False",
             calls |-> update_order_payment_status(erp).calls]
      [] operation = "register_webpay_transaction" ->
            [value |-> IF erp.tx_search # "error" /\ erp.tx_write THEN "True" ELSE "False",
             calls |-> register_webpay_transaction(erp, "done", OrderName)]
      [] OTHER ->
            [value |-> IF erp.search = "order" THEN "order" ELSE None,
             calls |-> <<ErpCall("erp.order_read")>>]

\* the answers of the ERP to the object calls
SessionScenarios ==
    {erp \in ErpScenarios :
        /\ erp.auth /\ erp.force /\ erp.note = "ok"
        /\ erp.confirm.kind \in {"result", "exception"}}

InitSession ==
    /\ clients = <<>>
    /\ domain_to_client = EmptyDict
    /\ env = [ODOO_URL |-> "https://c1.odoo.com", WEBPAY_PROVIDER_ID |-> "22"]
    /\ gateway = <<>>
    /\ uid = None
    /\ payment_transactions = <<>>
    /\ tenants = <<>>
    /\ req = NoRequest
    /\ resp = NoResponse
    /\ calls = <<>>

\* one of the four operations is called on the service
SessionCall(operation) ==
    /\ req = NoRequest
    /\ \E outcome \in AuthOutcomes, erp \in SessionScenarios :
         LET out == when_authenticated(uid, outcome, failure_value(operation),
                                       operation_body(operation, erp))
         IN /\ req' = [handler |-> operation, uid_before |-> uid, auth |-> outcome,
                       erp |-> erp]
            /\ resp' = [kind |-> "value", value |-> out.value]
            /\ calls' = out.calls
            /\ uid' = out.uid
    /\ UNCHANGED <<domain_to_client, tenants, payment_transactions, clients, env, gateway>>

\* the operation returned to its caller
SessionReturn ==
    /\ req # NoRequest
    /\ req' = NoRequest
    /\ resp' = NoResponse
    /\ calls' = <<>>
    /\ UNCHANGED <<uid, domain_to_client, tenants, payment_transactions, clients, env, gateway>>

NextSession == (\E operation \in SessionOperations : SessionCall(operation)) \/ SessionReturn

SpecSession == InitSession /\ [][NextSession]_vars

---------------------------------------------------------------------------
(* Properties of Spec (the HTTP handlers) *)

\* the api names of the calls OdooSalesService issues, and of the gateway calls
ErpApis ==
    {"erp.authenticate", "erp.order_search", "erp.confirm", "erp.force_state", "erp.note",
     "erp.tx_search", "erp.currency_search", "erp.tx_write", "erp.tx_create", "erp.link"}

GatewayApis == {"gateway.create", "gateway.commit"}

\* the positions in `calls` of the calls to one of `apis`
CallsTo(apis) == {i \in DOMAIN calls : calls[i].api \in apis}

\* the request being answered is a commit callback
IsCommitCallback == req.handler \in {"commit_post", "commit_get"}

\* the callback carries a (non-empty) token_ws
HasToken == ~Falsy(DictGet(req.params, "token_ws", None))

\* the gateway commit of the callback returned a result
CommitReturned == req.gw.called /\ ~req.gw.raised

\* C1: in both commit handlers, when a token is present, the gateway commit returns
\* and is_transaction_successful(result) is true, the response is the success
\* redirect, whatever fails in the ERP step (client construction included).  Stated
\* for the callbacks served with at least one active client.
C1_SuccessSurvivesErpFailure ==
    (IsCommitCallback /\ HasToken /\ CommitReturned
       /\ get_active_clients # <<>>
       /\ is_transaction_successful(req.gw.result))
      => (resp.kind = "redirect" /\ resp.status = "success"
            /\ resp.path = "/shop/confirmation")

\* C2: a commit callback (GET or POST) whose gateway commit call raises ends in the
\* error redirect /shop/payment?status=error (on the base url the handler's except
\* branch picks), and no ERP call is issued during the request.
C2_CommitRaisesEndsInError ==
    (IsCommitCallback /\ HasToken /\ req.gw.called /\ req.gw.raised)
      => /\ resp = Redirect(fallback_url, "/shop/payment", "error", None)
         /\ CallsTo(ErpApis) = {}
         /\ Len(calls) = 1 /\ calls[1].api = "gateway.commit"

\* C2 witness: a GET callback whose commit raised, answered with the error redirect of
\* an active client
C2_Witness ==
    /\ req.handler = "commit_get"
    /\ req.gw.called /\ req.gw.raised
    /\ get_active_clients # <<>>
    /\ resp.status = "error" /\ resp.base = get_active_clients[1].odoo_url

C5_NoTokenNoMarkerEndsInError ==
    (IsCommitCallback /\ ~HasToken /\ "TBK_TOKEN" \notin DOMAIN req.params)
      => (resp.kind = "redirect" /\ resp.status = "error")

\* C6: with two or more active clients, a commit callback for a transaction that
\* client B initiated is redirected to B's ERP base url.
C6_CallbackGoesToOwner ==
    (IsCommitCallback /\ Len(get_active_clients) >= 2
       /\ CommitReturned /\ req.owner # 0)
      => (resp.kind = "redirect" /\ resp.base = clients[req.owner].odoo_url)

\* C9: an init request that passes the origin check, carries an amount, and whose
\* caller resolves to a client (by origin, or the default first active client) reaches
\* the gateway create call and returns token, buy_order and session_id; it is not
\* rejected as an unidentified client.
C9_InitReachesGateway ==
    (req.handler = "init" /\ req.verified.ok /\ "amount" \in DOMAIN req.data
       /\ first_active_client # NoClient)
      => /\ req.gw.called
         /\ CallsTo(GatewayApis) # {}
         /\ resp.kind = "json"
         /\ "error" \notin DOMAIN resp.body

---------------------------------------------------------------------------
(* Properties of SpecService (the gateway adapter) *)

\* the credentials a WebpayService built for client i would hold
CredentialsOf(i) == WebpayService_init(clients[i])

\* the arguments of the end-to-end example
ExampleInput ==
    [amount |-> Amount("int", 10000), customer_name |-> JuanPerez,
     order_date |-> Date20251019]

\* C7: create_transaction for a request resolved to client T invokes the gateway
\* create call with T's gateway credentials (commerce code, api key, environment).
C7_CreateUsesTenantCredentials ==
    (req.handler = "create_transaction")
      => /\ Len(calls) = 1 /\ calls[1].api = "gateway.create"
         /\ calls[1].commerce_code = CredentialsOf(req.tenant).commerce_code
         /\ calls[1].api_key = CredentialsOf(req.tenant).api_key
         /\ calls[1].integration_type = CredentialsOf(req.tenant).integration_type

\* C8: a commit_transaction(t) of a token t that create_transaction returned for
\* client T uses the credentials that created t and tags the result with T's id.
C8_CommitTaggedWithTenant ==
    (req.handler = "commit_transaction" /\ req.tx # 0 /\ resp.kind = "result")
      => /\ calls[1].commerce_code = gateway[req.tx].commerce_code
         /\ calls[1].api_key = gateway[req.tx].api_key
         /\ "tenant_id" \in DOMAIN resp.body
         /\ resp.body.tenant_id = gateway[req.tx].tenant

\* C10 as stated: amount=10000, customer_name="Juan Pérez", order_date="2025-10-19"
\* produce the buy_order juan-pere_10000_20251019.
C10_ExampleBuyOrderAsStated ==
    (req.handler = "create_transaction" /\ req.input = ExampleInput
       /\ resp.kind = "result")
      => resp.body.buy_order = "juan-pere_10000_20251019"

\* C10 amended: create_transaction with amount=10000, customer_name="Juan Pérez",
\* order_date="2025-10-19" sends and returns the buy_order juan-prez_10000_20251019
\* (the "é" is removed, not transliterated).
C10_ExampleBuyOrder ==
    (req.handler = "create_transaction" /\ req.input = ExampleInput)
      => /\ calls[1].buy_order = "juan-prez_10000_20251019"
         /\ calls[1].amount = 10000
         /\ resp.kind = "result" => resp.body.buy_order = "juan-prez_10000_20251019"

\* C10 witness: create_transaction returned for the example arguments
C10_Witness ==
    /\ req.handler = "create_transaction"
    /\ req.input = ExampleInput
    /\ resp.kind = "result"
    /\ resp.body.buy_order = calls[1].buy_order
    /\ resp.body.order_date = "2025-10-19"

\* C11: the session_id that create_transaction sends to the gateway and returns is
\* {tenant_id}__{sanitized_raw_session} of at most 60 characters for the resolving
\* tenant, so that tenant_from_session of it returns that tenant.
C11_SessionIdNamesTenant ==
    (req.handler = "create_transaction")
      => LET sent == raw_session_id(req.gw.hash_session)
         IN /\ calls[1].session_id = Str(sent)
            /\ resp.kind = "result" => resp.body.session_id = Str(sent)
            /\ Len(sent) <= SessionMaxLen
            /\ StartsWith(sent, TenantId(req.tenant) \o SESSION_SEPARATOR)
            /\ tenant_from_session(sent) = req.tenant

---------------------------------------------------------------------------
(* Properties of SpecCodec (the identifier codec) *)

\* s.endswith(p)
EndsWith(s, p) == Len(s) >= Len(p) /\ SubSeq(s, Len(s) - Len(p) + 1, Len(s)) = p

\* the rung of the ladder that a build with these values ends on
RungOf(given, built) ==
    LET static == Len(given.amount_str) + Len(built.date_token) + 2
        hashed == Len(NatToStr(given.hash_buy)) + Len(given.amount_str) + CompactDateLen + 3
    IN IF Len(built.customer_label) + static <= BuyOrderMaxLen THEN 1
       ELSE IF Max(1, BuyOrderMaxLen - static) + static <= BuyOrderMaxLen THEN 2
       ELSE IF hashed <= BuyOrderMaxLen THEN 3
       ELSE 4

\* the rung of the ladder that produced the buy_order of the request being answered
LadderRung == RungOf(req, resp)

ExpectedSuffix ==
    <<"_">> \o req.amount_str \o <<"_">>
      \o (IF LadderRung <= 2 THEN resp.date_token
          ELSE Last(resp.date_token, CompactDateLen))

ParsedPlain == req.handler = "parse_buy_order" /\ RungOf(req.given, req.built) <= 2

\* the request being answered parsed a buy_order built on a hash rung
ParsedHashed == req.handler = "parse_buy_order" /\ RungOf(req.given, req.built) >= 3

C15_HashedBuyOrderRoundTrip ==
    (ParsedHashed /\ Len(req.given.amount_str) <= 16
       /\ "amount" \in DOMAIN req.payment_result)
      => /\ resp.valid
         /\ resp.amount = req.given.amount_str
         /\ resp.formatted_date = req.built.order_date_str

\* C16: _sanitize_customer_name and _normalize_order_date are total: for every input
\* (None, empty, whitespace only, non-ASCII, a malformed or impossible date, a value
\* that is not a string) they return a string and never raise.
C16_SanitizersAreTotal ==
    (req.handler \in {"sanitize_customer_name", "normalize_order_date"})
      => resp.kind = "str"

---------------------------------------------------------------------------
(* Properties of SpecReconcile (success predicate and ERP reconciliation) *)

\* status == "AUTHORIZED" or response_code == 0, on the result of the request
AuthorizedOrCodeZero ==
    \/ ("status" \in DOMAIN req.result /\ req.result["status"] = "AUTHORIZED")
    \/ ("response_code" \in DOMAIN req.result /\ req.result["response_code"] = 0)

\* the calls that create or update the payment record
PaymentRecordApis == {"erp.tx_write", "erp.tx_create"}

\* C17: is_transaction_successful(result) is true exactly when result.status is
\* "AUTHORIZED" or result.response_code is 0 (either one suffices), false otherwise,
\* also when both fields are absent; the state written to the ERP payment record is
\* "done" under the same disjunction and "error" otherwise.
C17_SuccessIsStatusOrCodeZero ==
    /\ (req.handler = "is_transaction_successful")
         => (resp.value <=> AuthorizedOrCodeZero)
    /\ (req.handler = "process_successful_payment")
         => \A i \in CallsTo(PaymentRecordApis) :
               calls[i].state = IF AuthorizedOrCodeZero THEN "done" ELSE "error"

\* C17 witness: status FAILED with response_code 0 is successful
C17_Witness ==
    /\ req.handler = "is_transaction_successful"
    /\ req.result = [buy_order |-> <<"O", "-", "7">>, status |-> "FAILED",
                     response_code |-> 0]
    /\ resp.value = TRUE

\* the confirm action answered the reconciliation with an error block
ConfirmAnsweredError ==
    /\ req.handler = "process_successful_payment"
    /\ CallsTo({"erp.confirm"}) # {}
    /\ req.erp.confirm.kind = "error"

\* the error message of the confirm action, lowercased, holds a stock keyword
HoldsStockKeyword ==
    \E keyword \in {<<"r", "e", "a", "b", "a", "s", "t", "e", "c", "i", "m", "i", "e", "n", "t", "o">>,
                    <<"s", "t", "o", "c", "k">>,
                    <<"n", "o", " ", "s", "e", " ", "e", "n", "c", "o", "n", "t", "r", "ó">>,
                    <<"n", "o", " ", "s", "e", " ", "e", "n", "c", "o", "n", "t", "r", "o">>} :
        Contains(Lower(combined_error_msg(req.erp.confirm)), keyword)

\* C19: when the ERP confirm action returns an error whose message holds none of the
\* stock keywords, the reconciliation stops there: no direct state write, no note write
\* and no payment-record create or update is issued, and the order stays unconfirmed.
C19_OtherErrorAborts ==
    (ConfirmAnsweredError /\ ~HoldsStockKeyword)
      => /\ calls[Len(calls)].api = "erp.confirm"
         /\ CallsTo({"erp.force_state", "erp.note", "erp.link"} \cup PaymentRecordApis) = {}
         /\ OrderStateAfter(req.erp, calls) = "draft"

\* C19 witness: "Access Denied" from the confirm action, and the confirm call is the last
C19_Witness ==
    /\ ConfirmAnsweredError
    /\ req.erp.confirm.message = <<"A", "c", "c", "e", "s", "s", " ", "D", "e", "n", "i", "e", "d">>
    /\ [i \in DOMAIN calls |-> calls[i].api]
         = <<"erp.authenticate", "erp.order_search", "erp.confirm">>

---------------------------------------------------------------------------
(* Properties of Spec: the ERP reconciliation behind a commit callback *)

\* a commit callback whose commit returned a successful result with a buy_order of the
\* three-part form, for a service with an active client
SuccessfulCommitCallback ==
    /\ IsCommitCallback /\ HasToken /\ CommitReturned
    /\ get_active_clients # <<>>
    /\ \/ DictHas(req.gw.result, "status", "AUTHORIZED")
       \/ DictHas(req.gw.result, "response_code", 0)
    /\ Len(Split(req.gw.result.buy_order, "_")) >= 3

\* the ERP holds the order of the callback and its confirm action answers with an
\* error whose message holds a stock keyword
ErpAnswersStockError ==
    /\ req.erp.search = "order"
    /\ req.erp.confirm.kind = "error"
    /\ HoldsStockKeyword

\* C18: when the commit is successful, an ERP order is found and the ERP confirm action
\* returns an error whose message holds, case-insensitively, "stock",
\* "reabastecimiento", "no se encontró" or "no se encontro", the order's state is
\* written directly to 'sale', then the note is written and the payment record is
\* created or updated, and the user is redirected to the success URL.
C18_StockErrorForcesSale ==
    (SuccessfulCommitCallback /\ ErpAnswersStockError)
      => /\ resp.kind = "redirect" /\ resp.status = "success"
         /\ resp.path = "/shop/confirmation"
         /\ \E i, j, k \in DOMAIN calls :
              /\ i < j /\ j < k
              /\ calls[i] = ErpWrite("erp.force_state", "sale")
              /\ calls[j].api = "erp.note"
              /\ calls[k].api \in PaymentRecordApis

\* C20: when the commit is successful but the ERP order lookup finds no matching
\* order, no ERP write of any kind (confirm, state write, note, payment record, link)
\* is issued, and the user is still redirected to the success URL.
C20_NoOrderNoWritesStillSuccess ==
    (SuccessfulCommitCallback /\ req.erp.search = "none")
      => /\ CallsTo({"erp.confirm", "erp.force_state", "erp.note", "erp.link"}
                      \cup PaymentRecordApis) = {}
         /\ resp.kind = "redirect" /\ resp.status = "success"
         /\ resp.path = "/shop/confirmation"

\* the reconciliation located the order of the payment
OrderLocated ==
    /\ req.handler = "process_successful_payment"
    /\ CallsTo({"erp.order_search"}) # {}
    /\ req.erp.search = "order"

\* C21: once an order is located, every ERP write is independently fallible: a failure
\* of the forced state write, of the note write or of the link write does not keep the
\* later steps, the payment-record create/update in particular, from being attempted;
\* only a confirm error that is not stock-related stops the remaining steps.
C21_WritesFailIndependently ==
    (/\ OrderLocated
     /\ req.erp.confirm.kind \in {"result", "error"}
     /\ (req.erp.confirm.kind = "error" => HoldsStockKeyword))
      => /\ CallsTo({"erp.note"}) # {}
         /\ CallsTo({"erp.tx_search"}) # {}

\* the reconciliation got as far as looking the payment record up
PaymentRecordLookedUp ==
    /\ req.handler = "process_successful_payment"
    /\ CallsTo({"erp.tx_search"}) # {}

\* the lookup, the update of an existing record or the creation of a new one, and the
\* link after an accepted write, all under the reference `reference`
PaymentRecordKeyedBy(reference) ==
    /\ \A i \in CallsTo({"erp.tx_search"} \cup PaymentRecordApis) :
          /\ calls[i].provider_id = env.WEBPAY_PROVIDER_ID
          /\ calls[i].reference = reference
    /\ (req.erp.tx_search = "found")
          => (CallsTo({"erp.tx_write"}) # {} /\ CallsTo({"erp.tx_create"}) = {})
    /\ (req.erp.tx_search = "none")
          => (CallsTo({"erp.tx_create"}) # {} /\ CallsTo({"erp.tx_write"}) = {})
    /\ (req.erp.tx_search = "error") => CallsTo(PaymentRecordApis) = {}
    /\ (CallsTo({"erp.link"}) # {})
          <=> (CallsTo(PaymentRecordApis) # {} /\ req.erp.tx_write)
    /\ \A i \in CallsTo({"erp.link"}), j \in CallsTo(PaymentRecordApis) : j < i

\* C22 (as stated): the payment record is looked up by (provider id, reference =
\* buy_order); an existing record is updated, otherwise one with reference = buy_order
\* is created; after a successful create or update the record is linked to the order.
C22_RecordKeyedByBuyOrder ==
    PaymentRecordLookedUp => PaymentRecordKeyedBy(Str(req.result.buy_order))

\* C22 (amended): the payment record is looked up by (provider id, reference = name of
\* the ERP order); an existing record is updated, otherwise one with that reference is
\* created; after a successful create or update the record is linked to the order.
C22_RecordKeyedByOrderName ==
    PaymentRecordLookedUp => PaymentRecordKeyedBy(OrderName)

\* C22 witness: an existing record of the order is updated and linked
C22_Witness ==
    /\ PaymentRecordLookedUp
    /\ req.erp.tx_search = "found"
    /\ \E i \in DOMAIN calls :
          /\ calls[i].api = "erp.tx_write"
          /\ calls[i].state = "done" /\ calls[i].reference = OrderName
          /\ i < Len(calls) /\ calls[Len(calls)].api = "erp.link"

---------------------------------------------------------------------------
(* Properties of SpecIdempotent *)

\* C23: reconciliation is idempotent: handling the same successful callback more than
\* once, one after the other or in two concurrent requests, leaves at most one payment
\* record per (provider id, reference) in the ERP.
C23_AtMostOneRecordPerReference ==
    \A i, j \in DOMAIN payment_transactions :
        (/\ payment_transactions[i].provider_id = payment_transactions[j].provider_id
         /\ payment_transactions[i].reference = payment_transactions[j].reference)
          => i = j

---------------------------------------------------------------------------
(* Properties of SpecTenants (the tenant registry) *)

\* tenant i has a pattern that matches the origin of the request: both sides without
\* trailing slash and lowercased, a pattern with '*' as a glob, any other by equality
HasMatchingPattern(i) ==
    \E k \in DOMAIN tenants[i].origins :
        LET asked == Lower(RStripSlash(req.origin))
            pattern == Lower(RStripSlash(tenants[i].origins[k]))
        IN IF \E c \in DOMAIN pattern : pattern[c] = "*"
           THEN fnmatch(asked, pattern)
           ELSE asked = pattern

\* C24: get_tenant_by_origin returns the first tenant, in registry load order, that has
\* a pattern matching the origin after a trailing slash is stripped and both sides are
\* lowercased; a pattern with '*' is a glob ("https://*.example.com" matches
\* "https://shop.example.com", not "https://other.com"), a pattern without '*' matches
\* only by equality; not-found when no tenant matches or the origin is empty.
C24_FirstMatchingTenant ==
    (req.handler = "get_tenant_by_origin")
      => /\ FalsyStr(req.origin) => resp.tenant = 0
         /\ (~FalsyStr(req.origin) /\ \A i \in DOMAIN tenants : ~HasMatchingPattern(i))
               => resp.tenant = 0
         /\ (~FalsyStr(req.origin) /\ \E i \in DOMAIN tenants : HasMatchingPattern(i))
               => /\ resp.tenant \in DOMAIN tenants
                  /\ HasMatchingPattern(resp.tenant)
                  /\ \A j \in 1..(resp.tenant - 1) : ~HasMatchingPattern(j)
         /\ (tenants[1].origins = <<PatternExample>> /\ req.origin = ShopOrigin)
               => resp.tenant = 1
         /\ ((\A i \in DOMAIN tenants : tenants[i].origins = <<PatternExample>>)
               /\ req.origin = OtherOrigin)
               => resp.tenant = 0

\* C24 witness: two tenants with the same glob pattern, an origin in capitals with a
\* trailing slash: the first one is returned
C24_Witness ==
    /\ req.handler = "get_tenant_by_origin"
    /\ Len(tenants) = 2
    /\ tenants[1].origins = <<PatternExample>> /\ tenants[2].origins = <<PatternExample>>
    /\ req.origin = Upper(ShopOrigin) \o <<"/">>
    /\ resp.tenant = 1

\* C25: for every tenant t of the registry and every raw session string,
\* build_session_id(t, raw) has at most 60 characters, its first '__'-delimited segment
\* is t.id, and tenant_from_session applied to it returns t.
C25_SessionRoundTrip ==
    (req.handler = "tenant_from_session")
      => /\ Len(req.session_id) <= SessionMaxLen
         /\ BeforeSeparator(req.session_id) = tenants[req.built_for].id
         /\ resp.tenant = req.built_for

\* C26: after construction of the TenantManager, for any configuration, the tenant
\* list is non-empty, every tenant id is non-empty and made of [0-9a-z-] only, tenant
\* ids are pairwise distinct, default_tenant is the first loaded tenant, and
\* get_tenant_by_id(t.id) returns t for every tenant t of the list.
C26_RegistryInvariant ==
    /\ tenants # <<>>
    /\ \A i \in DOMAIN tenants :
          /\ tenants[i].id # <<>>
          /\ \A c \in DOMAIN tenants[i].id : IsTenantIdChar(tenants[i].id[c])
    /\ \A i, j \in DOMAIN tenants : tenants[i].id = tenants[j].id => i = j
    /\ default_tenant = 1
    /\ \A i \in DOMAIN tenants : get_tenant_by_id(tenants[i].id) = i

---------------------------------------------------------------------------
(* Properties of Spec: tenant resolution and input checks of POST /webpay/init *)

\* an init request that passed verify_origin, on a service with an active client
VerifiedInit ==
    /\ req.handler = "init"
    /\ req.verified.ok
    /\ first_active_client # NoClient

\* the init request was processed: the gateway create was called and its answer returned
InitProcessed ==
    /\ req.gw.called
    /\ CallsTo({"gateway.create"}) # {}
    /\ resp.kind = "json"
    /\ "error" \notin DOMAIN resp.body

\* the init request was rejected as a client error, before any gateway call
InitRejected ==
    /\ resp.kind = "http_error"
    /\ resp.status \in 400..499
    /\ CallsTo(GatewayApis) = {}

\* C27: on init, an explicitly supplied tenant id that matches no tenant makes the
\* request be rejected as a client error, whereas an origin that resolves to no tenant
\* is not fatal: the request is processed with the default (first-loaded) tenant.
C27_UnknownTenantRejectedElseDefault ==
    VerifiedInit
      => /\ ("tenant_id" \in DOMAIN req.data
               /\ \A i \in DOMAIN clients : req.data.tenant_id # TenantId(i))
               => InitRejected
         /\ ("tenant_id" \notin DOMAIN req.data /\ "amount" \in DOMAIN req.data)
               => InitProcessed

---------------------------------------------------------------------------
(* Properties of Spec: the redirect and the gateway commit of a commit callback *)

\* the gateway commit of the callback returned a successful result
CommitWasSuccessful ==
    /\ HasToken /\ CommitReturned
    /\ \/ DictHas(req.gw.result, "status", "AUTHORIZED")
       \/ DictHas(req.gw.result, "response_code", 0)

\* C28: every commit callback (GET or POST, any fields, any gateway or ERP outcome)
\* ends with one redirect, to {tenant_erp_base}/shop/confirmation?status=success&
\* order={buy_order} for a success and to {tenant_erp_base}/shop/payment?status=S with
\* S in {cancelled, rejected, error} otherwise, where tenant_erp_base is the ERP base
\* URL of a configured tenant.
C28_RedirectToTenantErp ==
    IsCommitCallback
      => /\ resp.kind = "redirect"
         /\ \E i \in DOMAIN clients : resp.base = clients[i].odoo_url
         /\ CommitWasSuccessful
               => /\ resp.path = "/shop/confirmation" /\ resp.status = "success"
                  /\ resp.order = Str(req.gw.result.buy_order)
         /\ ~CommitWasSuccessful
               => /\ resp.path = "/shop/payment"
                  /\ resp.status \in {"cancelled", "rejected", "error"}

---------------------------------------------------------------------------
(* Properties of SpecService: the amount of an init request *)

\* C29: an init whose amount is missing, not numeric, zero or negative is rejected
\* before any gateway create call is made; no transaction is created with a defaulted
\* or zero amount.
C29_BadAmountNeverReachesGateway ==
    (/\ req.handler = "create_transaction"
     /\ (req.input.amount.t \notin {"int", "float"} \/ req.input.amount.v <= 0))
      => /\ CallsTo({"gateway.create"}) = {}
         /\ resp.kind = "raised"

\* C30: for every callback that carries a token, the gateway commit is invoked exactly
\* once in that request (never skipped, never retried), before any ERP call, and its
\* outcome, a result or a raised error, is what the response reports; a callback
\* without a token invokes neither the gateway commit nor the ERP.
C30_CommitOnceAndReported ==
    IsCommitCallback
      => /\ HasToken
               => /\ Cardinality(CallsTo({"gateway.commit"})) = 1
                  /\ \A i \in CallsTo(ErpApis), j \in CallsTo({"gateway.commit"}) : j < i
                  /\ (req.gw.called /\ req.gw.raised) => resp.status = "error"
                  /\ CommitWasSuccessful => resp.status = "success"
                  /\ (CommitReturned /\ ~CommitWasSuccessful) => resp.status = "rejected"
         /\ ~HasToken => CallsTo(GatewayApis \cup ErpApis) = {}

\* ---------------------------------------------------------------------------
\* Customer label (SpecCodec)
\* ---------------------------------------------------------------------------

IsLabelOutChar(c) == c \in Range(DigitChars) \cup Range(LowerChars) \cup {"-"}

HasAlphanumeric(s) ==
    \E i \in DOMAIN s : s[i] \in Range(DigitChars) \cup Range(LowerChars) \cup Range(UpperChars)

\* C31: for a name that is None or a str, _sanitize_customer_name returns a non-empty
\* string of at most 12 characters over [a-z0-9-], and returns "cliente" whenever the
\* name holds no alphanumeric character (None, empty, whitespace only, punctuation only).
C31_LabelShapeAndDefault ==
    (req.handler = "sanitize_customer_name" /\ req.value # NotAStr)
        => /\ resp.kind = "str"
           /\ Len(resp.value) \in 1..LabelMaxLen
           /\ \A i \in DOMAIN resp.value : IsLabelOutChar(resp.value[i])
           /\ (~HasAlphanumeric(req.value) => resp.value = DefaultLabel)

\* ---------------------------------------------------------------------------
\* Parsing a buy_order at commit time (SpecCodec)
\* ---------------------------------------------------------------------------

ResultParts == Split(req.payment_result.buy_order, "_")

\* C32: a buy_order of fewer than three '_'-separated parts is not abandoned: parsing
\* yields the whole string with hyphens removed as the customer hint, no amount and no
\* date; a three-part buy_order whose amount part is not a number yields no amount
\* (None), not an error.
C32_ShortBuyOrderKeptAsHint ==
    (req.handler = "parse_payment_result")
        => /\ (Len(ResultParts) < 3)
                => /\ resp.valid
                   /\ resp.customer_name = RemoveChar(req.payment_result.buy_order, "-")
                   /\ resp.amount = NoneStr
                   /\ resp.formatted_date = NoneStr
           /\ (Len(ResultParts) >= 3 /\ ~AllDigits(ResultParts[2]))
                => /\ resp.valid
                   /\ resp.amount = NoneStr

\* ---------------------------------------------------------------------------
\* Locating the order (SpecReconcile)
\* ---------------------------------------------------------------------------

\* reconciliation reached the order search
OrderSearched ==
    req.handler = "process_successful_payment" /\ CallsTo({"erp.order_search"}) # {}

SearchCalls == SelectSeq(calls, LAMBDA c : c.api = "erp.order_search")

ParsedResult == parse_payment_result(req.result, Today)

\* C33: the order is first looked up by exact name (sale.order name = buy_order); the
\* fuzzy search on customer hint, amount and date is issued only after an exact lookup
\* that found no order.
C33_ExactNameMatchFirst ==
    OrderSearched
      => SearchCalls[1].domain = <<Clause("name", "=", req.result.buy_order)>>

\* C34: the fuzzy search always carries all three criteria, partner name ilike the
\* customer hint, amount_total = amount and date_order within the day, for every hint,
\* amount (0 included) and date; it asks for at most one order, and yields no order
\* when the ERP fails.
C34_FuzzySearchHasAllCriteria ==
    OrderSearched
      => /\ \A i \in DOMAIN SearchCalls :
              /\ SearchCalls[i].limit = 1
              /\ SearchCalls[i].domain
                   = <<Clause("partner_id", "ilike", ParsedResult.customer_name),
                       Clause("amount_total", "=", ParsedResult.amount),
                       Clause("date_order", ">=",
                              ParsedResult.formatted_date \o <<" 00:00:00">>),
                       Clause("date_order", "<=",
                              ParsedResult.formatted_date \o <<" 23:59:59">>)>>
         /\ (req.erp.search = "error" => CallsTo({"erp.confirm"}) = {})

\* ---------------------------------------------------------------------------
\* Currency of the payment record (SpecReconcile)
\* ---------------------------------------------------------------------------

RecordPayloads == SelectSeq(calls, LAMBDA c : c.api \in PaymentRecordApis)

Registering == req.handler \in {"process_successful_payment", "register_webpay_transaction"}

\* C35: every payment-record create or update payload carries a currency_id: the
\* currency of the order when the order data has one (no currency lookup is made),
\* otherwise the id the CLP lookup returned, otherwise the hard-coded id 1; a failed
\* lookup does not abort the registration.
C35_CurrencyPrecedence ==
    Registering
      => /\ \A i \in DOMAIN RecordPayloads :
              RecordPayloads[i].currency_id
                = IF req.erp.order_currency # None THEN req.erp.order_currency
                  ELSE IF req.erp.clp = "found" THEN "45"
                  ELSE FallbackCurrencyId
         /\ (req.erp.order_currency # None => CallsTo({"erp.currency_search"}) = {})
         /\ (req.handler = "register_webpay_transaction" /\ req.erp.tx_search # "error")
              => Len(RecordPayloads) = 1

\* C35 witness: the order has no currency, the CLP lookup fails, and the record is
\* created with currency 1
C35_Witness ==
    /\ req.handler = "register_webpay_transaction"
    /\ req.erp.order_currency = None /\ req.erp.clp = "error"
    /\ CallsTo({"erp.currency_search"}) # {}
    /\ Len(RecordPayloads) = 1
    /\ RecordPayloads[1].api = "erp.tx_create"
    /\ RecordPayloads[1].currency_id = FallbackCurrencyId

\* ---------------------------------------------------------------------------
\* Gateway environment of a WebpayService (SpecService)
\* ---------------------------------------------------------------------------

Constructed == req.handler = "WebpayService"

HasOwnCredentials ==
    ~Falsy(req.client_config.commerce_code) /\ ~Falsy(req.client_config.api_key)

UsesSdkCredentials ==
    /\ ~resp.raised
    /\ resp.commerce_code = IntegrationCommerceCode /\ resp.api_key = IntegrationApiKey
    /\ resp.integration_type = "TEST"

UsesOwnCredentials(environment) ==
    /\ ~resp.raised
    /\ resp.commerce_code = req.client_config.commerce_code
    /\ resp.api_key = req.client_config.api_key
    /\ resp.integration_type = environment

\* C36: a WebpayService points at the LIVE gateway only for a PRODUCTION (or LIVE)
\* integration type with both commerce_code and api_key; TEST or no client
\* configuration gives the SDK's integration credentials on the TEST gateway;
\* CERTIFICATION gives the client's own credentials on the TEST gateway; any other
\* integration type, or a missing credential outside TEST, raises at construction.
C36_LiveOnlyForProductionWithCredentials ==
    Constructed
      => LET given == req.client_config.integration_type
         IN /\ (~resp.raised /\ resp.integration_type = "LIVE")
                 => /\ given \in {"PRODUCTION", "production", "LIVE", "live"}
                    /\ HasOwnCredentials
                    /\ UsesOwnCredentials("LIVE")
            /\ (req.client_config = NoClient \/ given \in {"TEST", "test"})
                 => UsesSdkCredentials
            /\ (given \in {"CERTIFICATION", "certification"} /\ HasOwnCredentials)
                 => UsesOwnCredentials("TEST")
            /\ (given \in {"PRODUCTION", "production"} /\ HasOwnCredentials)
                 => UsesOwnCredentials("LIVE")
            /\ (/\ req.client_config # NoClient
                /\ \/ given \notin {"TEST", "test", "CERTIFICATION", "certification",
                                    "PRODUCTION", "production", "LIVE", "live"}
                   \/ (given \notin {"TEST", "test"} /\ ~HasOwnCredentials))
                 => resp.raised

\* C36 witness: a production client without api_key is refused at construction
C36_Witness ==
    /\ Constructed
    /\ req.client_config.integration_type = "production"
    /\ req.client_config.commerce_code = "cc-1"
    /\ req.client_config.api_key = None
    /\ resp.raised

\* ---------------------------------------------------------------------------
\* Properties of SpecLoader
\* ---------------------------------------------------------------------------

\* C37: '*' in an allowed origin stands for any run of characters, so that
\* "https://*.example.com" admits "https://shop.example.com" and no origin of another
\* domain; an allowed origin without '*' admits only the equal origin, trailing
\* slashes ignored.
C37_WildcardAdmitsSubdomains ==
    (req.handler = "is_origin_allowed")
      => resp.value
           = (\E i \in DOMAIN clients[req.client].allowed_origins :
                 LET allowed == clients[req.client].allowed_origins[i]
                 IN IF "*" \in Range(allowed)
                    THEN fnmatch(RStripSlash(req.origin), RStripSlash(allowed))
                    ELSE RStripSlash(allowed) = RStripSlash(req.origin))

JustLoaded == req.handler \in {"ClientConfigLoader", "reload"} /\ req.loads

FileIds == {req.file.clients[j].client_id : j \in DOMAIN req.file.clients}

FileOrigins ==
    UNION {{RStripSlash(req.file.clients[j].allowed_origins[k]) :
               k \in DOMAIN req.file.clients[j].allowed_origins} :
           j \in DOMAIN req.file.clients}

EnabledClientAdmits ==
    \E i \in DOMAIN clients : clients[i].enabled /\ is_origin_allowed(clients[i], req.origin)

DisabledClientAdmits ==
    \E i \in DOMAIN clients : ~clients[i].enabled /\ is_origin_allowed(clients[i], req.origin)

\* C39: get_client_by_origin never returns a disabled client, and the list of active
\* clients, whose first element is the fallback client of a commit callback, holds no
\* disabled client; an origin that a disabled and an enabled client share resolves to
\* an enabled client.
C39_DisabledClientNeverChosen ==
    /\ (req.handler = "get_client_by_origin")
         => /\ (resp.index # 0 => clients[resp.index].enabled)
            /\ (~FalsyStr(req.origin) /\ EnabledClientAdmits) => resp.index # 0
    /\ (req.handler = "get_active_clients")
         => /\ \A i \in DOMAIN resp.value : resp.value[i].enabled
            /\ \A i \in DOMAIN clients :
                  clients[i].enabled => \E k \in DOMAIN resp.value : resp.value[k] = clients[i]

\* C39 witness: the origin map names a disabled client for the origin, an enabled one
\* admits it too, and the enabled one is returned
C39_Witness ==
    /\ req.handler = "get_client_by_origin"
    /\ req.origin = ShopOrigin
    /\ ShopOrigin \in DOMAIN domain_to_client
    /\ ~clients[client_by_id(domain_to_client[ShopOrigin])].enabled
    /\ DisabledClientAdmits /\ EnabledClientAdmits
    /\ resp.index # 0 /\ clients[resp.index].enabled

\* ---------------------------------------------------------------------------
\* Properties of SpecSession
\* ---------------------------------------------------------------------------

ObjectCalls == SelectSeq(calls, LAMBDA c : c.api # "erp.authenticate")

\* C40: every object call of find_order_by_criteria, update_order_payment_status,
\* register_webpay_transaction and get_order_by_id carries a uid that a successful
\* authenticate of this service returned; when authentication fails the operation
\* returns None or False with no object call and the uid stays unset, so that the
\* next operation starts with authenticate again.
C40_ObjectCallsOnlyWithAuthenticatedUid ==
    (req.handler \in SessionOperations)
      => /\ \A i \in DOMAIN ObjectCalls :
               /\ ObjectCalls[i].uid = SessionUid
               /\ uid = SessionUid
               /\ req.uid_before = SessionUid \/ req.auth = "uid"
         /\ (req.uid_before = None)
               => /\ calls # <<>> /\ calls[1].api = "erp.authenticate"
                  /\ Len(calls) - Len(ObjectCalls) = 1
         /\ (req.uid_before # None) => Len(calls) = Len(ObjectCalls)
         /\ (req.uid_before = None /\ req.auth # "uid")
               => /\ ObjectCalls = <<>>
                  /\ uid = None
                  /\ resp.value = IF req.handler \in {"find_order_by_criteria",
                                                       "get_order_by_id"}
                                  THEN None ELSE "False"

\* C40 witness: the payment record is to be registered, authentication is refused,
\* False comes back after the one authenticate call and the uid is still unset
C40_Witness ==
    /\ req.handler = "register_webpay_transaction"
    /\ req.uid_before = None /\ req.auth = "denied"
    /\ [i \in DOMAIN calls |-> calls[i].api] = <<"erp.authenticate">>
    /\ resp.value = "False"
    /\ uid = None

====
